---- MODULE Spec2Model ----
(***************************************************************************)
(* Model of the PromptHub storage engine (database/sqlite_storage.py,      *)
(* class SQLiteStorage): the category tree, the prompts' denormalized      *)
(* category fields, the cascading force delete, the version history of a   *)
(* prompt and the tag registry with its prompt linkage.                    *)
(*                                                                         *)
(* Identifiers: the seeded category id '0' is the number 0, the i-th       *)
(* uuid4() is the number i, Python's None / SQL NULL is None.              *)
(* Strings are TLA+ strings, "/"-joined with \o as the code does; a tag     *)
(* name is the sequence of its characters, because the read path joins     *)
(* and splits tag names on the character ",".                              *)
(***************************************************************************)
EXTENDS Integers, Sequences, FiniteSets, TLC

\* categories:      table categories (name, parent_id, level, path)
\* prompts:         table prompts, the columns category_id, category_name, category_path
\* prompt_fields:   table prompts, the columns title, content, description,
\*                  current_version, usage_count
\* prompt_versions: table prompt_versions, per prompt in created_at order
\* tags:            table tags (name, color)
\* prompt_tags:     table prompt_tags, the pairs <<prompt_id, tag_id>>
\* use_calls:       the use_prompt calls that run concurrently, each on its own
\*                  connection: where the call is and what it holds
\* db_lock:         the call whose connection holds the write lock of the
\*                  database file (None when no transaction is open)
\* calls:           the other calls that run concurrently, each on its own
\*                  connection (or, on the file, with its own copy of the data)
\* file:            the "prompts" of data/prompts.json, the file of FileStorage
VARIABLES categories, prompts, nextCat, nextPrompt, ret,
          prompt_fields, prompt_versions, tags, prompt_tags, nextTag,
          use_calls, db_lock, calls, file

vars == <<categories, prompts, nextCat, nextPrompt, ret,
          prompt_fields, prompt_versions, tags, prompt_tags, nextTag,
          use_calls, db_lock, calls, file>>

\* the tables the category operations never write
version_vars == <<prompt_fields, prompt_versions>>
tag_vars == <<tags, prompt_tags, nextTag>>
use_vars == <<use_calls, db_lock>>
call_vars == <<calls, file>>

(* ----------------------------- bounds ---------------------------------- *)
\* number of create_category calls explored by Spec
MaxCats == 2
\* number of create_category calls explored by SpecTree
MaxTreeCats == 2
\* number of create_category calls explored by SpecPath
MaxPathCats == 2
\* number of create_category calls explored by SpecDeep
MaxDeepCats == 5
\* number of tags created
MaxTags == 2
\* number of rows of prompt_versions
MaxVersions == 3
\* number of create_category calls explored by SpecPreview
MaxPreviewCats == 2
\* number of concurrent use_prompt calls
MaxUses == 3
\* number of create_category calls explored by SpecSearch
MaxSearchCats == 2
\* number of create_category calls explored by SpecAll
MaxAllCats == 1
\* number of use_prompt calls explored by SpecAll
MaxAllUses == 2

\* number of create_category calls explored by SpecSync
MaxSyncCats == 1

\* number of create_category calls explored by SpecDesc
MaxDescCats == 3

\* number of concurrent calls other than those of SpecUse
MaxCalls == 2

\* number of prompts in data/prompts.json explored by SpecFile
MaxFilePrompts == 2

\* number of create_category calls explored by SpecMoveRace
MaxRaceCats == 2

(* --------------------------- constants --------------------------------- *)
None == -1
\* marker of Python's RecursionError inside an id set
RecErr == -2
\* `if level > 5` / `if new_level > 5`
MaxLevel == 5
\* id '0' of the seeded category
UncategorizedId == 0
\* stands for the name '未分类' of the seeded category
UncategorizedName == "uncat"
\* stands for the default '其他' of prompt_data.get("category", "其他")
OtherName == "other"
\* marker of Python's RecursionError inside _build_category_path
PathErr == "<RecursionError>"

Names == {"a", UncategorizedName}
TreeNames == {"a"}
PathNames == {"", "a"}
LegacyNames == {OtherName, "a"}
PromptIds == {1}
\* the "title", "content", "description" of a prompt_data or version_data
Text(n) == [title |-> <<"title", n>>, content |-> <<"content", n>>,
            description |-> <<"description", n>>]
PromptData == Text(0)
TextIds == {0, 1}
\* the "version" labels of version_data
Labels == {"1.0", "1.1"}
VersionData == {[version |-> label] @@ Text(n) : label \in Labels, n \in TextIds}
VersionPromptIds == {1, 2}
\* tag names: "a", "b", "a,b", "" and "a " (a name is the sequence of its characters)
TagNames == {<<"a">>, <<"b">>, <<"a", ",", "b">>, << >>, <<"a", " ">>}
\* the "tags" lists of prompt_data and update_data
TagLists ==
    {<< >>, <<<<"a">>, <<"b">>>>, <<<<"a">>, <<"a", " ">>>>} \cup {<<name>> : name \in TagNames}
TagPromptIds == {1, 2}
TagIds == 1 .. MaxTags
\* the color _add_tag_to_prompt stores and tag_data.get("color", "#3B82F6") defaults to
DefaultColor == "#3B82F6"
TagColors == {DefaultColor, "#EF4444"}
PreviewCatIds == 0 .. MaxPreviewCats
DeletePromptIds == {1, 2}
\* the update_data of update_prompt: texts, a category id, a category name given
\* directly, tags, and the "current_version" key that load_test_data passes
UpdateData ==
    {[title |-> <<"title", 1>>],
     Text(1),
     [content |-> <<"content", 1>>, tags |-> <<<<"b">>>>],
     [tags |-> << >>],
     [category_id |-> 1],
     [category_id |-> 2],
     [category_id |-> None],
     [category_name |-> "a"],
     [current_version |-> "1.1"]}
UpdatePromptIds == {1, 2}
SearchCatIds == 0 .. MaxSearchCats
SearchPromptIds == {1, 2}
\* the texts SpecQuery stores, character by character: "ab", "Ac", "", "c", "b_"
QueryData ==
    {[title |-> <<"a", "b">>, content |-> <<"c">>, description |-> << >>],
     [title |-> <<"A", "c">>, content |-> <<"c">>, description |-> << >>],
     [title |-> <<"c">>, content |-> <<"c">>, description |-> <<"a", "b">>],
     [title |-> <<"c">>, content |-> <<"b", "_">>, description |-> << >>],
     [title |-> <<"c">>, content |-> <<"c">>, description |-> <<"c">>],
     [title |-> <<"A", "c">>, content |-> <<"a", "b">>, description |-> <<"b", "_">>]}
\* the queries: "", "a", "B", "ab", "bc", "_", "a_", "%"
Queries ==
    {<< >>, <<"a">>, <<"B">>, <<"a", "b">>, <<"b", "c">>, <<"_">>, <<"a", "_">>, <<"%">>}
AllCatIds == 0 .. MaxAllCats
AllPromptIds == {1}
\* ids of nothing: a category id and a tag id that are never issued, and the
\* prompt id 2 where one prompt is created
MissingCatIds == {MaxAllCats + 1}
MissingPromptIds == {2}
MissingTagIds == {MaxTags + 1}
AllUpdateData == {[title |-> <<"title", 1>>], [category_id |-> 1], [tags |-> <<<<"b">>>>]}
DeleteTagLists == {<< >>, <<<<"a">>>>, <<<<"a">>, <<"b">>>>}
RacePromptIds == {1}
RaceCatIds == 0 .. MaxRaceCats
UseCalls == 1 .. MaxUses
\* the other concurrent calls, numbered after the use_prompt calls
Calls == MaxUses + 1 .. MaxUses + MaxCalls
UsePromptIds == {1, 2}

FilePromptIds == 1 .. MaxFilePrompts

SyncCatIds == 0 .. MaxSyncCats
SyncPromptIds == {1, 2}
SyncNames == {"a", "b"}
DescCatIds == 0 .. MaxDescCats
CatIds == 0 .. MaxCats
TreeCatIds == 0 .. MaxTreeCats
PathCatIds == 0 .. MaxPathCats
DeepCatIds == 0 .. MaxDeepCats

(* ------------------------- pure helpers -------------------------------- *)
Exists(cats, id) == id \in DOMAIN cats

Children(cats, parent_id) == {c \in DOMAIN cats : cats[c].parent_id = parent_id}

\* the call depth at which a walk over cats must have met a cycle
\* (Python stops such a walk with RecursionError)
RecursionLimit(cats) == Cardinality(DOMAIN cats) + 1

RECURSIVE find_children(_, _, _)
find_children(cats, parent_id, fuel) ==
    IF fuel = 0 THEN {RecErr}
    ELSE UNION {{c} \cup find_children(cats, c, fuel - 1) : c \in Children(cats, parent_id)}

\* get_category_descendants stopping at the direct children
get_category_descendants_children_only(cats, category_id) ==
    Children(cats, category_id)

get_category_descendants(cats, category_id) ==
    find_children(cats, category_id, RecursionLimit(cats))

\* the list get_category_descendants returns: find_children appends each
\* child of parent_id and then, before the next child, the list of that child;
\* the rows of a SELECT without ORDER BY are taken in the order of their ids.
\* <<RecErr>> stands for the RecursionError of a walk that does not end.
RECURSIVE find_children_list(_, _, _)
RECURSIVE append_children(_, _, _)
append_children(cats, children, fuel) ==
    IF children = {} THEN << >>
    ELSE LET child == CHOOSE c \in children : \A d \in children : c <= d
         IN  <<child>> \o find_children_list(cats, child, fuel - 1)
                      \o append_children(cats, children \ {child}, fuel)

find_children_list(cats, parent_id, fuel) ==
    IF fuel = 0 THEN <<RecErr>>
    ELSE append_children(cats, Children(cats, parent_id), fuel)

\* get_category_descendants returning the children of the category only
get_category_descendants_list_children_only(cats, category_id) ==
    append_children(cats, Children(cats, category_id), 1)

\* SQLiteStorage.get_category_descendants: the list it returns
get_category_descendants_list(cats, category_id) ==
    find_children_list(cats, category_id, RecursionLimit(cats))

RECURSIVE build_path(_, _, _)
build_path(cats, category_id, fuel) ==
    IF fuel = 0 THEN PathErr
    ELSE IF ~Exists(cats, category_id) THEN ""
    ELSE IF cats[category_id].parent_id = None THEN cats[category_id].name
    ELSE LET parent_path == build_path(cats, cats[category_id].parent_id, fuel - 1)
         IN  IF parent_path = PathErr THEN PathErr
             ELSE IF parent_path # "" THEN parent_path \o "/" \o cats[category_id].name
             ELSE cats[category_id].name

_build_category_path(cats, category_id) ==
    build_path(cats, category_id, RecursionLimit(cats))

\* TRUE when the recomputation of the paths ends in RecursionError
PathsFail(cats) == \E c \in DOMAIN cats : _build_category_path(cats, c) = PathErr

_update_category_paths(cats) ==
    [c \in DOMAIN cats |-> [cats[c] EXCEPT !.path = _build_category_path(cats, c)]]

\* _would_create_cycle without the descendant test
_would_create_cycle_self_only(cats, category_id, new_parent_id) ==
    category_id = new_parent_id

_would_create_cycle(cats, category_id, new_parent_id) ==
    \/ category_id = new_parent_id
    \/ new_parent_id \in get_category_descendants(cats, category_id)

(* ------------------- schema (foreign keys) ----------------------------- *)
\* categories.parent_id REFERENCES categories(id)
ParentFkOk(cats) == \A c \in DOMAIN cats : cats[c].parent_id = None \/ cats[c].parent_id \in DOMAIN cats

\* prompts.category_id REFERENCES categories(id) ON DELETE SET NULL
OnDeleteSetNull(prm, deleted) ==
    [p \in DOMAIN prm |->
        IF prm[p].category_id \in deleted THEN [prm[p] EXCEPT !.category_id = None] ELSE prm[p]]

(* ----------------------------- state ----------------------------------- *)
\* ret: the last traced call and what it returned (deleted and affected are
\* force_delete_category's deleted_categories_count and affected_prompts_count;
\* bumped says that the prompt update_prompt returned carries the time of the
\* call as its updated_at);
\* NoRet after Init and after every call a specification does not trace.
\* a use_prompt call that has not started
Idle == [at |-> "idle", prompt_id |-> None, seen |-> 0, value |-> None, outcome |-> "none"]

\* a call that has not started
NoCall == [op |-> "none", at |-> "idle", outcome |-> "none"]

NoRet == [op |-> "none", outcome |-> "ok", deleted |-> 0, affected |-> 0, id |-> None,
          rows |-> {}, list |-> << >>, bumped |-> FALSE]

Init ==
    /\ categories = (UncategorizedId :> [name |-> UncategorizedName, parent_id |-> None,
                                        level |-> 1, path |-> UncategorizedName])
    /\ prompts = << >>
    /\ nextCat = 1
    /\ nextPrompt = 1
    /\ ret = NoRet
    /\ prompt_fields = << >>
    /\ prompt_versions = << >>
    /\ tags = << >>
    /\ prompt_tags = {}
    /\ nextTag = 1
    /\ use_calls = [call \in UseCalls |-> Idle]
    /\ db_lock = None
    /\ calls = [call \in Calls |-> NoCall]
    /\ file = << >>


(* --------------------- Category Tree Manager --------------------------- *)
\* create_category comparing the parent's level, not the new level, with the limit
create_category_off_by_one(cats, new_id, name, parent_id) ==
    LET parent_found == parent_id # None /\ Exists(cats, parent_id)
        level == IF parent_found THEN cats[parent_id].level + 1 ELSE 1
        inserted == cats @@ (new_id :> [name |-> name, parent_id |-> parent_id,
                                       level |-> level, path |-> ""])
    IN  IF parent_found /\ cats[parent_id].level > MaxLevel
          THEN [outcome |-> "ValueError:depth", cats |-> cats]
        ELSE IF ~ParentFkOk(inserted)
          THEN [outcome |-> "IntegrityError", cats |-> cats]
        ELSE IF PathsFail(inserted)
          THEN [outcome |-> "RecursionError", cats |-> cats]
        ELSE [outcome |-> "ok", cats |-> _update_category_paths(inserted)]

\* SQLiteStorage.create_category: the outcome and the categories table after
\* the call, new_id being the uuid4() of this call
create_category(cats, new_id, name, parent_id) ==
    LET parent_found == parent_id # None /\ Exists(cats, parent_id)
        level == IF parent_found THEN cats[parent_id].level + 1 ELSE 1
        inserted == cats @@ (new_id :> [name |-> name, parent_id |-> parent_id,
                                       level |-> level, path |-> ""])
    IN  IF parent_found /\ level > MaxLevel
          THEN [outcome |-> "ValueError:depth", cats |-> cats]
        ELSE IF ~ParentFkOk(inserted)
          THEN [outcome |-> "IntegrityError", cats |-> cats]
        ELSE IF PathsFail(inserted)
          THEN [outcome |-> "RecursionError", cats |-> cats]
        ELSE [outcome |-> "ok", cats |-> _update_category_paths(inserted)]

\* the UPDATE of update_category with WHERE category_id = ? alone
SyncPrompts_by_id_only(prm, category_id, old_name, new_name, new_path) ==
    [p \in DOMAIN prm |->
        IF prm[p].category_id = category_id
        THEN [prm[p] EXCEPT !.category_name = new_name, !.category_path = new_path]
        ELSE prm[p]]

\* the UPDATE prompts ... WHERE category_id = ? OR category_name = ? of update_category
SyncPrompts(prm, category_id, old_name, new_name, new_path) ==
    [p \in DOMAIN prm |->
        IF prm[p].category_id = category_id \/ prm[p].category_name = old_name
        THEN [prm[p] EXCEPT !.category_name = new_name, !.category_path = new_path]
        ELSE prm[p]]

\* update_category with no cycle test and with paths that are not rebuilt by
\* walking the parent links (so that nothing stops a cyclic write)
update_category_unchecked(cats, prm, category_id, has_name, name, has_parent, new_parent_id) ==
    IF ~Exists(cats, category_id) THEN [outcome |-> "None", cats |-> cats, prm |-> prm]
    ELSE
    LET parent_found == has_parent /\ new_parent_id # None /\ Exists(cats, new_parent_id)
        new_level == IF ~has_parent THEN cats[category_id].level
                     ELSE IF new_parent_id = None THEN 1
                     ELSE IF parent_found THEN cats[new_parent_id].level + 1
                     ELSE cats[category_id].level
        updated == [cats EXCEPT ![category_id] =
                       [@ EXCEPT !.name = IF has_name THEN name ELSE @,
                                 !.parent_id = IF has_parent THEN new_parent_id ELSE @,
                                 !.level = new_level]]
    IN  IF parent_found /\ new_level > MaxLevel
          THEN [outcome |-> "ValueError:depth", cats |-> cats, prm |-> prm]
        ELSE IF ~ParentFkOk(updated)
          THEN [outcome |-> "IntegrityError", cats |-> cats, prm |-> prm]
        ELSE [outcome |-> "ok", cats |-> updated, prm |-> prm]

\* SQLiteStorage.update_category with update_data holding "name" when has_name
\* and "parent_id" when has_parent
update_category(cats, prm, category_id, has_name, name, has_parent, new_parent_id) ==
    IF ~Exists(cats, category_id) THEN [outcome |-> "None", cats |-> cats, prm |-> prm]
    ELSE
    LET old_name == cats[category_id].name
        old_path == cats[category_id].path
        checks_cycle == has_parent /\ new_parent_id # None
        parent_found == has_parent /\ new_parent_id # None /\ Exists(cats, new_parent_id)
        new_level == IF ~has_parent THEN cats[category_id].level
                     ELSE IF new_parent_id = None THEN 1
                     ELSE IF parent_found THEN cats[new_parent_id].level + 1
                     ELSE cats[category_id].level
        updated == [cats EXCEPT ![category_id] =
                       [@ EXCEPT !.name = IF has_name THEN name ELSE @,
                                 !.parent_id = IF has_parent THEN new_parent_id ELSE @,
                                 !.level = new_level]]
        repathed == _update_category_paths(updated)
        new_path == repathed[category_id].path
    IN  IF checks_cycle /\ RecErr \in get_category_descendants(cats, category_id)
          THEN [outcome |-> "RecursionError", cats |-> cats, prm |-> prm]
        ELSE IF checks_cycle /\ _would_create_cycle(cats, category_id, new_parent_id)
          THEN [outcome |-> "ValueError:cycle", cats |-> cats, prm |-> prm]
        ELSE IF parent_found /\ new_level > MaxLevel
          THEN [outcome |-> "ValueError:depth", cats |-> cats, prm |-> prm]
        ELSE IF ~ParentFkOk(updated)
          THEN [outcome |-> "IntegrityError", cats |-> cats, prm |-> prm]
        ELSE IF PathsFail(updated)
          THEN [outcome |-> "RecursionError", cats |-> cats, prm |-> prm]
        ELSE [outcome |-> "ok", cats |-> repathed,
              prm |-> IF old_path # new_path
                      THEN SyncPrompts(prm, category_id, old_name,
                                       repathed[category_id].name, new_path)
                      ELSE prm]

\* delete_category that deletes a category nothing refers to
delete_category_unused_deleted(cats, prm, category_id) ==
    IF ~Exists(cats, category_id)
      THEN [outcome |-> "not_found", cats |-> cats, prm |-> prm,
            child_categories_count |-> 0, affected_prompts_count |-> 0]
    ELSE IF /\ Children(cats, category_id) = {}
            /\ \A p \in DOMAIN prm : prm[p].category_id # category_id
      THEN [outcome |-> "ok", cats |-> [c \in DOMAIN cats \ {category_id} |-> cats[c]],
            prm |-> prm, child_categories_count |-> 0, affected_prompts_count |-> 0]
    ELSE [outcome |-> "requires_confirmation", cats |-> cats, prm |-> prm,
          child_categories_count |-> Cardinality(Children(cats, category_id)),
          affected_prompts_count |->
              Cardinality({p \in DOMAIN prm : \/ prm[p].category_id = category_id
                                             \/ prm[p].category_name = cats[category_id].name})]

\* SQLiteStorage.delete_category: what the call returns and the tables after it
\* (it executes SELECTs only)
delete_category(cats, prm, category_id) ==
    IF ~Exists(cats, category_id)
      THEN [outcome |-> "not_found", cats |-> cats, prm |-> prm,
            child_categories_count |-> 0, affected_prompts_count |-> 0]
    ELSE [outcome |-> "requires_confirmation", cats |-> cats, prm |-> prm,
          child_categories_count |-> Cardinality(Children(cats, category_id)),
          affected_prompts_count |->
              Cardinality({p \in DOMAIN prm : \/ prm[p].category_id = category_id
                                             \/ prm[p].category_name = cats[category_id].name})]

\* the rows of SELECT * FROM categories WHERE id = '0' OR name = '未分类'
UncategorizedRows(cats) ==
    {c \in DOMAIN cats : c = UncategorizedId \/ cats[c].name = UncategorizedName}

\* force_delete_category without the lookup of the category
force_delete_category_no_lookup(cats, prm, category_id, uncategorized) ==
    LET categories_to_delete == {category_id} \cup get_category_descendants(cats, category_id)
        referencing == {p \in DOMAIN prm : prm[p].category_id \in categories_to_delete}
        moved == IF uncategorized = None THEN prm
                 ELSE [p \in DOMAIN prm |->
                         IF p \in referencing
                         THEN [prm[p] EXCEPT !.category_id = uncategorized,
                                             !.category_name = cats[uncategorized].name,
                                             !.category_path = cats[uncategorized].path]
                         ELSE prm[p]]
        remaining == [c \in DOMAIN cats \ categories_to_delete |-> cats[c]]
    IN  IF RecErr \in categories_to_delete
          THEN [outcome |-> "RecursionError", cats |-> cats, prm |-> prm,
                deleted |-> 0, affected |-> 0]
        ELSE [outcome |-> "ok", cats |-> remaining,
              prm |-> OnDeleteSetNull(moved, categories_to_delete),
              deleted |-> Cardinality(categories_to_delete),
              affected |-> IF uncategorized = None THEN 0 ELSE Cardinality(referencing)]

\* SQLiteStorage.force_delete_category, uncategorized being the row fetchone()
\* returned (None when the SELECT has no row)
force_delete_category(cats, prm, category_id, uncategorized) ==
    IF ~Exists(cats, category_id)
      THEN [outcome |-> "not_found", cats |-> cats, prm |-> prm, deleted |-> 0, affected |-> 0]
    ELSE
    LET categories_to_delete == {category_id} \cup get_category_descendants(cats, category_id)
        referencing == {p \in DOMAIN prm : prm[p].category_id \in categories_to_delete}
        moved == IF uncategorized = None THEN prm
                 ELSE [p \in DOMAIN prm |->
                         IF p \in referencing
                         THEN [prm[p] EXCEPT !.category_id = uncategorized,
                                             !.category_name = cats[uncategorized].name,
                                             !.category_path = cats[uncategorized].path]
                         ELSE prm[p]]
        remaining == [c \in DOMAIN cats \ categories_to_delete |-> cats[c]]
    IN  IF RecErr \in categories_to_delete
          THEN [outcome |-> "RecursionError", cats |-> cats, prm |-> prm,
                deleted |-> 0, affected |-> 0]
        ELSE [outcome |-> "ok", cats |-> remaining,
              prm |-> OnDeleteSetNull(moved, categories_to_delete),
              deleted |-> Cardinality(categories_to_delete),
              affected |-> IF uncategorized = None THEN 0 ELSE Cardinality(referencing)]

(* ------------------------ Prompt Repository ---------------------------- *)
\* create_prompt that stores the category_id it was given when no category has it
create_prompt_id_kept(cats, category_id, category) ==
    IF category_id # None /\ Exists(cats, category_id)
    THEN [category_id |-> category_id, category_name |-> cats[category_id].name,
          category_path |-> cats[category_id].path]
    ELSE [category_id |-> category_id, category_name |-> category, category_path |-> category]

\* the category fields SQLiteStorage.create_prompt stores
create_prompt(cats, category_id, category) ==
    IF category_id # None /\ Exists(cats, category_id)
    THEN [category_id |-> category_id, category_name |-> cats[category_id].name,
          category_path |-> cats[category_id].path]
    ELSE [category_id |-> None, category_name |-> category, category_path |-> category]

\* the category fields after SQLiteStorage.update_prompt with "category_id" in update_data
update_prompt(cats, prompt, category_id) ==
    IF category_id = None THEN [prompt EXCEPT !.category_id = None]
    ELSE IF Exists(cats, category_id)
    THEN [prompt EXCEPT !.category_id = category_id,
                        !.category_name = cats[category_id].name,
                        !.category_path = cats[category_id].path]
    ELSE [prompt EXCEPT !.category_id = None, !.category_name = OtherName,
                        !.category_path = OtherName]

\* prompt_versions.prompt_id REFERENCES prompts(id) ON DELETE CASCADE: the version
\* rows after the prompt's row is deleted
OnDeletePromptVersions(versions, prompt_id) ==
    [p \in DOMAIN versions \ {prompt_id} |-> versions[p]]

\* prompt_tags.prompt_id REFERENCES prompts(id) ON DELETE CASCADE
OnDeletePromptLinks(links, prompt_id) == {l \in links : l[1] # prompt_id}

\* delete_prompt on a connection that does not enforce the foreign key of prompt_tags
delete_prompt_links_kept(prm, flds, versions, links, prompt_id) ==
    IF prompt_id \notin DOMAIN flds
      THEN [outcome |-> "False", prm |-> prm, flds |-> flds, versions |-> versions,
            links |-> links]
    ELSE [outcome |-> "ok",
          prm |-> [p \in DOMAIN prm \ {prompt_id} |-> prm[p]],
          flds |-> [p \in DOMAIN flds \ {prompt_id} |-> flds[p]],
          versions |-> OnDeletePromptVersions(versions, prompt_id),
          links |-> links]

\* SQLiteStorage.delete_prompt: the outcome and the tables after the call
delete_prompt(prm, flds, versions, links, prompt_id) ==
    IF prompt_id \notin DOMAIN flds
      THEN [outcome |-> "False", prm |-> prm, flds |-> flds, versions |-> versions,
            links |-> links]
    ELSE [outcome |-> "ok",
          prm |-> [p \in DOMAIN prm \ {prompt_id} |-> prm[p]],
          flds |-> [p \in DOMAIN flds \ {prompt_id} |-> flds[p]],
          versions |-> OnDeletePromptVersions(versions, prompt_id),
          links |-> OnDeletePromptLinks(links, prompt_id)]

\* SQLiteStorage._prompt_exists
_prompt_exists(flds, prompt_id) == prompt_id \in DOMAIN flds

\* use_prompt that computes the new count from the count it saw when it looked
\* the prompt up
use_prompt_count_from_lookup(seen, stored) ==
    seen + 1

\* SET usage_count = usage_count + 1: the count the UPDATE of use_prompt stores,
\* stored being the column when the statement runs and seen the column when
\* _prompt_exists ran
use_prompt_count(seen, stored) ==
    stored + 1

\* SQLiteStorage.use_prompt as one uninterrupted call: the outcome and the table
use_prompt(flds, prompt_id) ==
    IF ~_prompt_exists(flds, prompt_id) THEN [outcome |-> "None", flds |-> flds]
    ELSE [outcome |-> "ok",
          flds |-> [flds EXCEPT ![prompt_id].usage_count =
                       use_prompt_count(flds[prompt_id].usage_count,
                                        flds[prompt_id].usage_count)]]

\* update_data after the "category_id" branch of SQLiteStorage.update_prompt has
\* put the category's name and path (or the defaults) into it
resolve_category(cats, update_data) ==
    IF "category_id" \notin DOMAIN update_data \/ update_data.category_id = None
      THEN update_data
    ELSE IF Exists(cats, update_data.category_id)
      THEN [category_name |-> cats[update_data.category_id].name,
            category_path |-> cats[update_data.category_id].path] @@ update_data
    ELSE [category_id |-> None, category_name |-> OtherName,
          category_path |-> OtherName] @@ update_data

\* `if field in ["title", "content", "description", "category_id", "category_name",
\* "category_path"]`: the columns the UPDATE of update_prompt may set
UpdatableFields ==
    {"title", "content", "description", "category_id", "category_name", "category_path"}

\* the row of the prompt (its category columns prompt, its other columns flds)
\* after the UPDATE of SQLiteStorage.update_prompt with update_data; bumped says
\* whether updated_at is written: `if update_fields:` appends "updated_at = ?"
\* and executes the UPDATE, and no other statement of the call writes the row
update_prompt_row(cats, prompt, flds, update_data) ==
    LET data == resolve_category(cats, update_data)
        set == UpdatableFields \cap DOMAIN data
    IN  [prm |-> [k \in DOMAIN prompt |-> IF k \in set THEN data[k] ELSE prompt[k]],
         flds |-> [k \in DOMAIN flds |-> IF k \in set THEN data[k] ELSE flds[k]],
         bumped |-> set # {}]

(* ------------------------------ search --------------------------------- *)
\* SQLite folds the case of the ASCII letters when LIKE compares two characters
Fold(ch) ==
    CASE ch = "A" -> "a"
      [] ch = "B" -> "b"
      [] ch = "C" -> "c"
      [] OTHER -> ch

\* text LIKE pattern: "%" stands for any run of characters, "_" for any one
\* character, every other character for itself in either case
RECURSIVE like(_, _)
like(text, pattern) ==
    IF pattern = << >> THEN text = << >>
    ELSE IF Head(pattern) = "%"
      THEN \/ like(text, Tail(pattern))
           \/ text # << >> /\ like(Tail(text), pattern)
    ELSE /\ text # << >>
         /\ Head(pattern) = "_" \/ Fold(Head(pattern)) = Fold(Head(text))
         /\ like(Tail(text), Tail(pattern))

\* query_param = f"%{query}%"
query_param(query) == <<"%">> \o query \o <<"%">>

\* search_prompts that applies the category name together with the category id
search_prompts_name_too(cats, prm, flds, query, category, category_id) ==
    LET descendants == IF category_id # None THEN get_category_descendants(cats, category_id)
                       ELSE {}
        target_category_ids == {category_id} \cup descendants
    IN  IF RecErr \in descendants THEN [outcome |-> "RecursionError", rows |-> {}]
        ELSE [outcome |-> "ok",
              rows |-> {p \in DOMAIN prm :
                          /\ query # << >> =>
                                \/ like(flds[p].title, query_param(query))
                                \/ like(flds[p].content, query_param(query))
                                \/ like(flds[p].description, query_param(query))
                          /\ category_id # None => prm[p].category_id \in target_category_ids
                          /\ category # "" => prm[p].category_name = category}]

\* SQLiteStorage.search_prompts: the ids of the rows it returns; an empty query,
\* an empty category and category_id None are the arguments that are not given
search_prompts(cats, prm, flds, query, category, category_id) ==
    LET descendants == IF category_id # None THEN get_category_descendants(cats, category_id)
                       ELSE {}
        target_category_ids == {category_id} \cup descendants
    IN  IF RecErr \in descendants THEN [outcome |-> "RecursionError", rows |-> {}]
        ELSE [outcome |-> "ok",
              rows |-> {p \in DOMAIN prm :
                          /\ query # << >> =>
                                \/ like(flds[p].title, query_param(query))
                                \/ like(flds[p].content, query_param(query))
                                \/ like(flds[p].description, query_param(query))
                          /\ IF category_id # None
                               THEN prm[p].category_id \in target_category_ids
                             ELSE category # "" => prm[p].category_name = category}]

(* ----------------------- Prompt Version Store -------------------------- *)
\* prompt_versions has no uniqueness constraint on (prompt_id, version): the
\* INSERT of a version never fails for its label
VersionInsertOk(vers, version_data) == TRUE

\* the columns create_prompt stores for title, content, description, current_version
initial_fields(prompt_data) ==
    [title |-> prompt_data.title, content |-> prompt_data.content,
     description |-> prompt_data.description, current_version |-> "1.0",
     usage_count |-> 0]

\* the row of create_prompt with the content in the place of the description
initial_version_content_twice(prompt_data) ==
    [version |-> "1.0", title |-> prompt_data.title, content |-> prompt_data.content,
     description |-> prompt_data.content]

\* the prompt_versions row create_prompt inserts
initial_version(prompt_data) ==
    [version |-> "1.0", title |-> prompt_data.title, content |-> prompt_data.content,
     description |-> prompt_data.description]

\* the positions of the rows WHERE prompt_id = ? AND version = ?
VersionRows(vers, version) == {i \in DOMAIN vers : vers[i].version = version}

\* create_prompt_version that writes the prompt's row anew, usage_count included
create_prompt_version_count_reset(flds, vers, version_data) ==
    [outcome |-> "ok",
     flds |-> [current_version |-> version_data.version, title |-> version_data.title,
               content |-> version_data.content, description |-> version_data.description,
               usage_count |-> 0],
     vers |-> Append(vers, [version |-> version_data.version,
                            title |-> version_data.title,
                            content |-> version_data.content,
                            description |-> version_data.description])]

\* create_prompt_version that inserts the row and copies the texts but leaves
\* current_version as it was
create_prompt_version_not_activated(flds, vers, version_data) ==
    [outcome |-> "ok",
     flds |-> [flds EXCEPT !.title = version_data.title,
                           !.content = version_data.content,
                           !.description = version_data.description],
     vers |-> Append(vers, [version |-> version_data.version,
                            title |-> version_data.title,
                            content |-> version_data.content,
                            description |-> version_data.description])]

\* SQLiteStorage.create_prompt_version on an existing prompt with columns flds and
\* version rows vers
create_prompt_version(flds, vers, version_data) ==
    IF ~VersionInsertOk(vers, version_data)
    THEN [outcome |-> "IntegrityError", flds |-> flds, vers |-> vers]
    ELSE [outcome |-> "ok",
          flds |-> [flds EXCEPT !.current_version = version_data.version,
                                !.title = version_data.title,
                                !.content = version_data.content,
                                !.description = version_data.description],
          vers |-> Append(vers, [version |-> version_data.version,
                                 title |-> version_data.title,
                                 content |-> version_data.content,
                                 description |-> version_data.description])]

\* switch_prompt_version that sets current_version without copying the texts
switch_prompt_version_label_only(flds, vers, version, row) ==
    IF row = None THEN [outcome |-> "None", flds |-> flds]
    ELSE [outcome |-> "ok", flds |-> [flds EXCEPT !.current_version = version]]

\* SQLiteStorage.switch_prompt_version on an existing prompt, row being the
\* position of the row fetchone() returned (None when the SELECT has no row)
switch_prompt_version(flds, vers, version, row) ==
    IF row = None THEN [outcome |-> "None", flds |-> flds]
    ELSE [outcome |-> "ok",
          flds |-> [flds EXCEPT !.current_version = version,
                                !.title = vers[row].title,
                                !.content = vers[row].content,
                                !.description = vers[row].description]]

\* what is left of a sequence after the positions in gone are removed
RECURSIVE Without(_, _)
Without(seq, gone) ==
    IF seq = << >> THEN << >>
    ELSE LET rest == Without(SubSeq(seq, 1, Len(seq) - 1), gone)
         IN  IF Len(seq) \in gone THEN rest ELSE Append(rest, seq[Len(seq)])

\* delete_prompt_version without the only-version and current-version tests
delete_prompt_version_unchecked(flds, vers, version) ==
    IF VersionRows(vers, version) = {}
      THEN [outcome |-> "error:no_version", vers |-> vers]
    ELSE [outcome |-> "ok", vers |-> Without(vers, VersionRows(vers, version))]

\* SQLiteStorage.delete_prompt_version on an existing prompt
delete_prompt_version(flds, vers, version) ==
    IF Len(vers) <= 1 THEN [outcome |-> "error:only_version", vers |-> vers]
    ELSE IF flds.current_version = version
      THEN [outcome |-> "error:current_version", vers |-> vers]
    ELSE IF VersionRows(vers, version) = {}
      THEN [outcome |-> "error:no_version", vers |-> vers]
    ELSE [outcome |-> "ok", vers |-> Without(vers, VersionRows(vers, version))]

\* the title, content, description columns after SQLiteStorage.update_prompt with
\* "title", "content" and "description" in update_data
update_prompt_fields(flds, prompt_data) ==
    [flds EXCEPT !.title = prompt_data.title, !.content = prompt_data.content,
                 !.description = prompt_data.description]

(* ---------------------------- Tag Registry ----------------------------- *)
\* str.strip() on a name
RECURSIVE Strip(_)
Strip(name) ==
    IF name = << >> THEN name
    ELSE IF Head(name) = " " THEN Strip(Tail(name))
    ELSE IF name[Len(name)] = " " THEN Strip(SubSeq(name, 1, Len(name) - 1))
    ELSE name

\* the ids of the rows of SELECT ... FROM tags WHERE name = ?
TagRows(tgs, name) == {t \in DOMAIN tgs : tgs[t].name = name}

\* SQLiteStorage._add_tag_to_prompt, new_id being the uuid4() of this call: the
\* tags, the linkage and the next uuid4() after it
_add_tag_to_prompt(tgs, links, new_id, prompt_id, tag_name) ==
    IF Strip(tag_name) = << >> THEN [tags |-> tgs, links |-> links, next |-> new_id]
    ELSE
    LET name == Strip(tag_name)
        found == TagRows(tgs, name)
        tag_id == IF found # {} THEN CHOOSE t \in found : TRUE ELSE new_id
    IN  [tags |-> IF found # {} THEN tgs
                  ELSE tgs @@ (new_id :> [name |-> name, color |-> DefaultColor]),
         links |-> links \cup {<<prompt_id, tag_id>>},
         next |-> IF found # {} THEN new_id ELSE new_id + 1]

\* for tag_name in tags: self._add_tag_to_prompt(cursor, prompt_id, tag_name)
RECURSIVE add_tags(_, _, _, _, _)
add_tags(tgs, links, new_id, prompt_id, tag_names) ==
    IF tag_names = << >> THEN [tags |-> tgs, links |-> links, next |-> new_id]
    ELSE LET r == _add_tag_to_prompt(tgs, links, new_id, prompt_id, Head(tag_names))
         IN  add_tags(r.tags, r.links, r.next, prompt_id, Tail(tag_names))

\* SQLiteStorage._update_prompt_tags
_update_prompt_tags(tgs, links, new_id, prompt_id, tag_names) ==
    add_tags(tgs, {l \in links : l[1] # prompt_id}, new_id, prompt_id, tag_names)

\* create_tag that stores the color of the call in the tag it finds
create_tag_recolors(tgs, new_id, name, color) ==
    IF TagRows(tgs, name) # {}
      THEN LET t == CHOOSE x \in TagRows(tgs, name) : TRUE
           IN  [outcome |-> "existing", tags |-> [tgs EXCEPT ![t].color = color], id |-> t]
    ELSE [outcome |-> "ok", tags |-> tgs @@ (new_id :> [name |-> name, color |-> color]),
          id |-> new_id]

\* SQLiteStorage.create_tag, new_id being the uuid4() of this call; id is the
\* "id" of the tag it returns
create_tag(tgs, new_id, name, color) ==
    IF TagRows(tgs, name) # {}
      THEN [outcome |-> "existing", tags |-> tgs, id |-> CHOOSE t \in TagRows(tgs, name) : TRUE]
    ELSE [outcome |-> "ok", tags |-> tgs @@ (new_id :> [name |-> name, color |-> color]),
          id |-> new_id]

\* update_tag without the test for another tag of the new name
update_tag_unchecked(tgs, tag_id, name) ==
    IF tag_id \notin DOMAIN tgs THEN [outcome |-> "None", tags |-> tgs]
    ELSE [outcome |-> "ok", tags |-> [tgs EXCEPT ![tag_id].name = name]]

\* update_tag that writes the name before it looks for another tag of that name
\* and raises without rolling back
update_tag_no_rollback(tgs, tag_id, name) ==
    IF tag_id \notin DOMAIN tgs THEN [outcome |-> "None", tags |-> tgs]
    ELSE IF name # tgs[tag_id].name /\ TagRows(tgs, name) \ {tag_id} # {}
      THEN [outcome |-> "ValueError:name", tags |-> [tgs EXCEPT ![tag_id].name = name]]
    ELSE [outcome |-> "ok", tags |-> [tgs EXCEPT ![tag_id].name = name]]

\* SQLiteStorage.update_tag with "name" in update_data
update_tag(tgs, tag_id, name) ==
    IF tag_id \notin DOMAIN tgs THEN [outcome |-> "None", tags |-> tgs]
    ELSE IF name # tgs[tag_id].name /\ TagRows(tgs, name) \ {tag_id} # {}
      THEN [outcome |-> "ValueError:name", tags |-> tgs]
    ELSE [outcome |-> "ok", tags |-> [tgs EXCEPT ![tag_id].name = name]]

\* prompt_tags.tag_id REFERENCES tags(id) ON DELETE CASCADE
OnDeleteCascade(links, tag_id) == {l \in links : l[2] # tag_id}

\* delete_tag on a connection that does not enforce the foreign keys
delete_tag_no_cascade(tgs, links, tag_id) ==
    IF tag_id \notin DOMAIN tgs
      THEN [outcome |-> "False", tags |-> tgs, links |-> links, affected |-> 0]
    ELSE [outcome |-> "ok",
          tags |-> [t \in DOMAIN tgs \ {tag_id} |-> tgs[t]],
          links |-> links,
          affected |-> Cardinality({l[1] : l \in {k \in links : k[2] = tag_id}})]

\* SQLiteStorage.delete_tag
delete_tag(tgs, links, tag_id) ==
    IF tag_id \notin DOMAIN tgs
      THEN [outcome |-> "False", tags |-> tgs, links |-> links, affected |-> 0]
    ELSE [outcome |-> "ok",
          tags |-> [t \in DOMAIN tgs \ {tag_id} |-> tgs[t]],
          links |-> OnDeleteCascade(links, tag_id),
          affected |-> Cardinality({l[1] : l \in {k \in links : k[2] = tag_id}})]

\* GROUP_CONCAT(t.name) over the tags with the ids in ids: the names joined with ","
RECURSIVE group_concat(_, _)
group_concat(tgs, ids) ==
    IF ids = {} THEN << >>
    ELSE LET t == CHOOSE x \in ids : \A y \in ids : x <= y
         IN  IF ids = {t} THEN tgs[t].name
             ELSE tgs[t].name \o <<",">> \o group_concat(tgs, ids \ {t})

\* str.split(','): the pieces of a string between its commas
RECURSIVE split(_)
split(chars) ==
    IF \A i \in DOMAIN chars : chars[i] # "," THEN <<chars>>
    ELSE LET i == CHOOSE k \in DOMAIN chars :
                     chars[k] = "," /\ \A j \in 1 .. k - 1 : chars[j] # ","
         IN  <<SubSeq(chars, 1, i - 1)>> \o split(SubSeq(chars, i + 1, Len(chars)))

\* the names in the "tags" list SQLiteStorage.get_prompt_by_id returns
get_prompt_tags(tgs, links, prompt_id) ==
    LET concat == group_concat(tgs, {l[2] : l \in {k \in links : k[1] = prompt_id}})
    IN  IF concat = << >> THEN {}
        ELSE {split(concat)[i] : i \in DOMAIN split(concat)}

(* ----------------------------- actions --------------------------------- *)
\* Every action is one call of the storage class. traced says whether the
\* specification keeps the call and what it returned in ret.
Ret(traced, op, outcome, deleted, affected) ==
    IF traced
    THEN [op |-> op, outcome |-> outcome, deleted |-> deleted, affected |-> affected,
          id |-> None, rows |-> {}, list |-> << >>, bumped |-> FALSE]
    ELSE NoRet

\* the same for a call that returns a list of ids
RetList(traced, op, outcome, id, list) ==
    IF traced
    THEN [op |-> op, outcome |-> outcome, deleted |-> 0, affected |-> 0, id |-> id,
          rows |-> {}, list |-> list, bumped |-> FALSE]
    ELSE NoRet

\* the same for update_prompt: bumped says whether the call wrote updated_at
RetBumped(traced, op, outcome, bumped) ==
    IF traced
    THEN [op |-> op, outcome |-> outcome, deleted |-> 0, affected |-> 0, id |-> None,
          rows |-> {}, list |-> << >>, bumped |-> bumped]
    ELSE NoRet

\* the same for a call that returns a row: id is the "id" of the row
RetId(traced, op, outcome, id) ==
    IF traced
    THEN [op |-> op, outcome |-> outcome, deleted |-> 0, affected |-> 0, id |-> id,
          rows |-> {}, list |-> << >>, bumped |-> FALSE]
    ELSE NoRet

\* the same for a query: id is the id the query was given, rows the ids of the
\* rows it returned
RetRows(traced, op, outcome, id, rows) ==
    IF traced
    THEN [op |-> op, outcome |-> outcome, deleted |-> 0, affected |-> 0, id |-> id,
          rows |-> rows, list |-> << >>, bumped |-> FALSE]
    ELSE NoRet

CreateCategory(name, parent_id, max, traced) ==
    /\ nextCat <= max
    /\ LET r == create_category(categories, nextCat, name, parent_id)
       IN  /\ categories' = r.cats
           /\ nextCat' = IF r.outcome = "ok" THEN nextCat + 1 ELSE nextCat
           /\ ret' = Ret(traced, "create_category", r.outcome, 0, 0)
    /\ UNCHANGED <<call_vars, use_vars, prompts, nextPrompt, version_vars, tag_vars>>

\* update_category(category_id, {"name": name})
RenameCategory(category_id, name, traced) ==
    /\ LET r == update_category(categories, prompts, category_id, TRUE, name, FALSE, None)
       IN  /\ categories' = r.cats
           /\ prompts' = r.prm
           /\ ret' = Ret(traced, "update_category:name", r.outcome, 0, 0)
    /\ UNCHANGED <<call_vars, use_vars, nextCat, nextPrompt, version_vars, tag_vars>>

\* update_category(category_id, {"parent_id": new_parent_id}), with "name" too
\* when has_name
MoveCategory(category_id, has_name, name, new_parent_id, traced) ==
    /\ LET r == update_category(categories, prompts, category_id, has_name, name,
                                TRUE, new_parent_id)
       IN  /\ categories' = r.cats
           /\ prompts' = r.prm
           /\ ret' = Ret(traced, "update_category:parent_id", r.outcome, 0, 0)
    /\ UNCHANGED <<call_vars, use_vars, nextCat, nextPrompt, version_vars, tag_vars>>

\* update_category(category_id, {"color": ...}): neither "name" nor "parent_id"
\* is in update_data, and the columns that are written are not among those of
\* categories
RecolorCategory(category_id, traced) ==
    /\ LET r == update_category(categories, prompts, category_id, FALSE, "", FALSE, None)
       IN  /\ categories' = r.cats
           /\ prompts' = r.prm
           /\ ret' = Ret(traced, "update_category:color", r.outcome, 0, 0)
    /\ UNCHANGED <<call_vars, use_vars, nextCat, nextPrompt, version_vars, tag_vars>>

ForceDeleteCategory(category_id, traced) ==
    /\ \E uncategorized \in UncategorizedRows(categories) \cup {None} :
         /\ uncategorized = None => UncategorizedRows(categories) = {}
         /\ LET r == force_delete_category(categories, prompts, category_id, uncategorized)
            IN  /\ categories' = r.cats
                /\ prompts' = r.prm
                /\ ret' = Ret(traced, "force_delete_category", r.outcome,
                              r.deleted, r.affected)
    /\ UNCHANGED <<call_vars, use_vars, nextCat, nextPrompt, version_vars, tag_vars>>

\* create_prompt with "title", "content", "description" as in prompt_data and
\* "tags" = tag_names
CreatePrompt(prompt_id, category_id, category, prompt_data, tag_names) ==
    /\ prompt_id = nextPrompt
    /\ prompts' = prompts @@ (prompt_id :> create_prompt(categories, category_id, category))
    /\ prompt_fields' = prompt_fields @@ (prompt_id :> initial_fields(prompt_data))
    /\ prompt_versions' = prompt_versions @@ (prompt_id :> <<initial_version(prompt_data)>>)
    /\ LET r == add_tags(tags, prompt_tags, nextTag, prompt_id, tag_names)
       IN  /\ r.next <= MaxTags + 1
           /\ tags' = r.tags
           /\ prompt_tags' = r.links
           /\ nextTag' = r.next
    /\ nextPrompt' = nextPrompt + 1
    /\ ret' = NoRet
    /\ UNCHANGED <<call_vars, use_vars, categories, nextCat>>

UpdatePrompt(prompt_id, category_id) ==
    /\ prompts' = IF prompt_id \in DOMAIN prompts
                  THEN [prompts EXCEPT ![prompt_id] = update_prompt(categories, @, category_id)]
                  ELSE prompts
    /\ ret' = NoRet
    /\ UNCHANGED <<call_vars, use_vars, categories, nextCat, nextPrompt, version_vars, tag_vars>>

\* update_prompt(prompt_id, {"title", "content", "description"})
UpdatePromptFields(prompt_id, prompt_data) ==
    /\ prompt_fields' = IF prompt_id \in DOMAIN prompt_fields
                        THEN [prompt_fields EXCEPT ![prompt_id] =
                                 update_prompt_fields(@, prompt_data)]
                        ELSE prompt_fields
    /\ ret' = NoRet
    /\ UNCHANGED <<call_vars, use_vars, categories, prompts, nextCat, nextPrompt, prompt_versions, tag_vars>>

\* update_prompt(prompt_id, {"tags": tag_names})
UpdatePromptTags(prompt_id, tag_names) ==
    /\ LET r == IF prompt_id \in DOMAIN prompts
                THEN _update_prompt_tags(tags, prompt_tags, nextTag, prompt_id, tag_names)
                ELSE [tags |-> tags, links |-> prompt_tags, next |-> nextTag]
       IN  /\ r.next <= MaxTags + 1
           /\ tags' = r.tags
           /\ prompt_tags' = r.links
           /\ nextTag' = r.next
    /\ ret' = NoRet
    /\ UNCHANGED <<call_vars, use_vars, categories, prompts, nextCat, nextPrompt, version_vars>>

\* the number of rows of prompt_versions
RECURSIVE CountRows(_, _)
CountRows(versions, ids) ==
    IF ids = {} THEN 0
    ELSE LET p == CHOOSE x \in ids : TRUE
         IN  Len(versions[p]) + CountRows(versions, ids \ {p})

CreateVersion(prompt_id, version_data, traced) ==
    /\ CountRows(prompt_versions, DOMAIN prompt_versions) < MaxVersions
    /\ LET r == IF prompt_id \in DOMAIN prompt_fields
                THEN create_prompt_version(prompt_fields[prompt_id],
                                           prompt_versions[prompt_id], version_data)
                ELSE [outcome |-> "None"]
       IN  /\ prompt_fields' = IF r.outcome = "ok"
                               THEN [prompt_fields EXCEPT ![prompt_id] = r.flds]
                               ELSE prompt_fields
           /\ prompt_versions' = IF r.outcome = "ok"
                                 THEN [prompt_versions EXCEPT ![prompt_id] = r.vers]
                                 ELSE prompt_versions
           /\ ret' = Ret(traced, "create_prompt_version", r.outcome, 0, 0)
    /\ UNCHANGED <<call_vars, use_vars, categories, prompts, nextCat, nextPrompt, tag_vars>>

SwitchVersion(prompt_id, version, traced) ==
    /\ IF prompt_id \notin DOMAIN prompt_fields
       THEN /\ prompt_fields' = prompt_fields
            /\ ret' = Ret(traced, "switch_prompt_version", "None", 0, 0)
       ELSE \E row \in VersionRows(prompt_versions[prompt_id], version) \cup {None} :
              /\ row = None => VersionRows(prompt_versions[prompt_id], version) = {}
              /\ LET r == switch_prompt_version(prompt_fields[prompt_id],
                                                prompt_versions[prompt_id], version, row)
                 IN  /\ prompt_fields' = [prompt_fields EXCEPT ![prompt_id] = r.flds]
                     /\ ret' = Ret(traced, "switch_prompt_version", r.outcome, 0, 0)
    /\ UNCHANGED <<call_vars, use_vars, categories, prompts, nextCat, nextPrompt, prompt_versions, tag_vars>>

DeleteVersion(prompt_id, version, traced) ==
    /\ LET r == IF prompt_id \in DOMAIN prompt_fields
                THEN delete_prompt_version(prompt_fields[prompt_id],
                                           prompt_versions[prompt_id], version)
                ELSE [outcome |-> "error:no_prompt"]
       IN  /\ prompt_versions' = IF r.outcome = "ok"
                                 THEN [prompt_versions EXCEPT ![prompt_id] = r.vers]
                                 ELSE prompt_versions
           /\ ret' = Ret(traced, "delete_prompt_version", r.outcome, 0, 0)
    /\ UNCHANGED <<call_vars, use_vars, categories, prompts, nextCat, nextPrompt, prompt_fields, tag_vars>>

CreateTag(name, color, traced) ==
    /\ nextTag <= MaxTags
    /\ LET r == create_tag(tags, nextTag, name, color)
       IN  /\ tags' = r.tags
           /\ nextTag' = IF r.outcome = "ok" THEN nextTag + 1 ELSE nextTag
           /\ ret' = RetId(traced, "create_tag", r.outcome, r.id)
    /\ UNCHANGED <<call_vars, use_vars, categories, prompts, nextCat, nextPrompt, version_vars, prompt_tags>>

\* update_tag(tag_id, {"name": name})
UpdateTag(tag_id, name, traced) ==
    /\ LET r == update_tag(tags, tag_id, name)
       IN  /\ tags' = r.tags
           /\ ret' = Ret(traced, "update_tag", r.outcome, 0, 0)
    /\ UNCHANGED <<call_vars, use_vars, categories, prompts, nextCat, nextPrompt, version_vars, prompt_tags, nextTag>>

DeleteTag(tag_id, traced) ==
    /\ LET r == delete_tag(tags, prompt_tags, tag_id)
       IN  /\ tags' = r.tags
           /\ prompt_tags' = r.links
           /\ ret' = Ret(traced, "delete_tag", r.outcome, 0, r.affected)
    /\ UNCHANGED <<call_vars, use_vars, categories, prompts, nextCat, nextPrompt, version_vars, nextTag>>

GetDescendants(category_id, traced) ==
    /\ LET descendants == get_category_descendants_list(categories, category_id)
           failed == \E i \in DOMAIN descendants : descendants[i] = RecErr
       IN  ret' = RetList(traced, "get_category_descendants",
                          IF failed THEN "RecursionError" ELSE "ok",
                          category_id, IF failed THEN << >> ELSE descendants)
    /\ UNCHANGED <<call_vars, use_vars, categories, prompts, nextCat, nextPrompt, version_vars, tag_vars>>

\* delete_category: the impact preview
DeleteCategory(category_id, traced) ==
    /\ LET r == delete_category(categories, prompts, category_id)
       IN  /\ categories' = r.cats
           /\ prompts' = r.prm
           /\ ret' = Ret(traced, "delete_category", r.outcome, 0, r.affected_prompts_count)
    /\ UNCHANGED <<call_vars, use_vars, nextCat, nextPrompt, version_vars, tag_vars>>

\* update_prompt(prompt_id, update_data) with any keys in update_data
UpdatePromptData(prompt_id, update_data, traced) ==
    /\ IF ~_prompt_exists(prompt_fields, prompt_id)
       THEN /\ ret' = Ret(traced, "update_prompt", "None", 0, 0)
            /\ UNCHANGED <<prompts, prompt_fields, tag_vars>>
       ELSE /\ LET r == update_prompt_row(categories, prompts[prompt_id],
                                          prompt_fields[prompt_id], update_data)
               IN  /\ prompts' = [prompts EXCEPT ![prompt_id] = r.prm]
                   /\ prompt_fields' = [prompt_fields EXCEPT ![prompt_id] = r.flds]
                   /\ ret' = RetBumped(traced, "update_prompt", "ok", r.bumped)
            /\ LET t == IF "tags" \in DOMAIN update_data
                        THEN _update_prompt_tags(tags, prompt_tags, nextTag, prompt_id,
                                                 update_data.tags)
                        ELSE [tags |-> tags, links |-> prompt_tags, next |-> nextTag]
               IN  /\ t.next <= MaxTags + 1
                   /\ tags' = t.tags
                   /\ prompt_tags' = t.links
                   /\ nextTag' = t.next
    /\ UNCHANGED <<call_vars, use_vars, categories, nextCat, nextPrompt, prompt_versions>>

DeletePrompt(prompt_id, traced) ==
    /\ LET r == delete_prompt(prompts, prompt_fields, prompt_versions, prompt_tags, prompt_id)
       IN  /\ prompts' = r.prm
           /\ prompt_fields' = r.flds
           /\ prompt_versions' = r.versions
           /\ prompt_tags' = r.links
           /\ ret' = Ret(traced, "delete_prompt", r.outcome, 0, 0)
    /\ UNCHANGED <<call_vars, use_vars, categories, nextCat, nextPrompt, tags, nextTag>>

SearchPrompts(query, category, category_id, traced) ==
    /\ LET r == search_prompts(categories, prompts, prompt_fields, query, category,
                               category_id)
       IN  ret' = RetRows(traced, "search_prompts", r.outcome, category_id, r.rows)
    /\ UNCHANGED <<call_vars, use_vars, categories, prompts, nextCat, nextPrompt, version_vars, tag_vars>>

\* use_prompt as one uninterrupted call
UsePrompt(prompt_id, traced) ==
    /\ db_lock = None
    /\ LET r == use_prompt(prompt_fields, prompt_id)
       IN  /\ prompt_fields' = r.flds
           /\ ret' = Ret(traced, "use_prompt", r.outcome, 0, 0)
    /\ UNCHANGED <<call_vars, use_vars, categories, prompts, nextCat, nextPrompt, prompt_versions,
                   tag_vars>>

\* use_prompt, first step: the call opens its connection and _prompt_exists runs
\* its SELECT
UseSelect(call, prompt_id) ==
    /\ use_calls[call].at = "idle"
    /\ use_calls' = [use_calls EXCEPT ![call] =
          IF _prompt_exists(prompt_fields, prompt_id)
          THEN [Idle EXCEPT !.at = "update", !.prompt_id = prompt_id,
                            !.seen = prompt_fields[prompt_id].usage_count]
          ELSE [Idle EXCEPT !.at = "done", !.prompt_id = prompt_id, !.outcome = "None"]]
    /\ ret' = NoRet
    /\ UNCHANGED <<call_vars, db_lock, categories, prompts, nextCat, nextPrompt, version_vars,
                   tag_vars>>

\* use_prompt, second step: the UPDATE opens the transaction, takes the write
\* lock and computes the new count inside it
UseUpdate(call) ==
    /\ use_calls[call].at = "update"
    /\ db_lock = None
    /\ db_lock' = call
    /\ use_calls' = [use_calls EXCEPT ![call].at = "commit",
          ![call].value = use_prompt_count(use_calls[call].seen,
                             prompt_fields[use_calls[call].prompt_id].usage_count)]
    /\ ret' = NoRet
    /\ UNCHANGED <<call_vars, categories, prompts, nextCat, nextPrompt, version_vars, tag_vars>>

\* use_prompt, second step while another connection holds the write lock: the
\* UPDATE waits, and raises sqlite3.OperationalError (database is locked) when
\* the connection's timeout ends first
UseLocked(call) ==
    /\ use_calls[call].at = "update"
    /\ db_lock # None
    /\ use_calls' = [use_calls EXCEPT ![call].at = "done",
                                      ![call].outcome = "OperationalError"]
    /\ ret' = NoRet
    /\ UNCHANGED <<call_vars, db_lock, categories, prompts, nextCat, nextPrompt, version_vars,
                   tag_vars>>

\* use_prompt, last step: conn.commit() stores the count and releases the lock
UseCommit(call) ==
    /\ use_calls[call].at = "commit"
    /\ db_lock = call
    /\ db_lock' = None
    /\ prompt_fields' = [prompt_fields EXCEPT
          ![use_calls[call].prompt_id].usage_count = use_calls[call].value]
    /\ use_calls' = [use_calls EXCEPT ![call].at = "done", ![call].outcome = "ok"]
    /\ ret' = NoRet
    /\ UNCHANGED <<call_vars, categories, prompts, nextCat, nextPrompt, prompt_versions,
                   tag_vars>>

(* ------------- concurrent calls on the prompt versions ----------------- *)
\* A call runs on its own connection. Its SELECTs are transactions of their
\* own; its first writing statement opens the transaction that holds the write
\* lock of the database file until conn.commit(), and the other connections
\* read the rows as they were committed.

\* the row of the prompt after the UPDATE of switch_prompt_version, target_version
\* being the version row the call fetched
switch_prompt_version_write(flds, version, target_version) ==
    [flds EXCEPT !.current_version = version,
                 !.title = target_version.title,
                 !.content = target_version.content,
                 !.description = target_version.description]

\* delete_prompt_version, first step: the connection is opened and
\* _prompt_exists runs its SELECT
DvExists(call, prompt_id, version) ==
    /\ calls[call].at = "idle"
    /\ calls' = [calls EXCEPT ![call] =
          [op |-> "delete_prompt_version", prompt_id |-> prompt_id, version |-> version,
           at |-> IF _prompt_exists(prompt_fields, prompt_id) THEN "count" ELSE "done",
           outcome |-> IF _prompt_exists(prompt_fields, prompt_id) THEN "none"
                       ELSE "error:no_prompt"]]
    /\ ret' = NoRet
    /\ UNCHANGED <<file, use_vars, categories, prompts, nextCat, nextPrompt, version_vars,
                   tag_vars>>

\* delete_prompt_version: SELECT COUNT(*) ... and `if version_count <= 1`
DvCount(call) ==
    /\ calls[call].op = "delete_prompt_version"
    /\ calls[call].at = "count"
    /\ LET prompt_id == calls[call].prompt_id
           version_count == IF prompt_id \in DOMAIN prompt_versions
                            THEN Len(prompt_versions[prompt_id]) ELSE 0
       IN  calls' = [calls EXCEPT ![call] =
              IF version_count <= 1
              THEN [@ EXCEPT !.at = "done", !.outcome = "error:only_version"]
              ELSE [@ EXCEPT !.at = "current"]]
    /\ ret' = NoRet
    /\ UNCHANGED <<file, use_vars, categories, prompts, nextCat, nextPrompt, version_vars,
                   tag_vars>>

\* delete_prompt_version: SELECT current_version ... and `if current_version == version`
DvCurrent(call) ==
    /\ calls[call].op = "delete_prompt_version"
    /\ calls[call].at = "current"
    /\ LET prompt_id == calls[call].prompt_id
       IN  calls' = [calls EXCEPT ![call] =
              IF prompt_id \notin DOMAIN prompt_fields
                THEN [@ EXCEPT !.at = "done", !.outcome = "TypeError"]
              ELSE IF prompt_fields[prompt_id].current_version = calls[call].version
                THEN [@ EXCEPT !.at = "done", !.outcome = "error:current_version"]
              ELSE [@ EXCEPT !.at = "delete"]]
    /\ ret' = NoRet
    /\ UNCHANGED <<file, use_vars, categories, prompts, nextCat, nextPrompt, version_vars,
                   tag_vars>>

\* the version rows of a prompt, none when the prompt has no row
VersionsOf(versions, prompt_id) ==
    IF prompt_id \in DOMAIN versions THEN versions[prompt_id] ELSE << >>

\* delete_prompt_version: the DELETE opens the transaction and takes the write
\* lock; `if cursor.rowcount == 0` returns without a commit, and conn.close()
\* rolls back
DvDelete(call) ==
    /\ calls[call].op = "delete_prompt_version"
    /\ calls[call].at = "delete"
    /\ db_lock = None
    /\ LET rowcount == Cardinality(VersionRows(VersionsOf(prompt_versions,
                                                          calls[call].prompt_id),
                                               calls[call].version))
       IN  IF rowcount = 0
           THEN /\ calls' = [calls EXCEPT ![call].at = "done",
                                         ![call].outcome = "error:no_version"]
                /\ db_lock' = db_lock
           ELSE /\ calls' = [calls EXCEPT ![call].at = "commit"]
                /\ db_lock' = call
    /\ ret' = NoRet
    /\ UNCHANGED <<file, use_calls, categories, prompts, nextCat, nextPrompt, version_vars,
                   tag_vars>>

\* delete_prompt_version, last step: conn.commit() stores the deletion and
\* releases the lock
DvCommit(call) ==
    /\ calls[call].op = "delete_prompt_version"
    /\ calls[call].at = "commit"
    /\ db_lock = call
    /\ db_lock' = None
    /\ prompt_versions' = [prompt_versions EXCEPT ![calls[call].prompt_id] =
          Without(@, VersionRows(@, calls[call].version))]
    /\ calls' = [calls EXCEPT ![call].at = "done", ![call].outcome = "ok"]
    /\ ret' = NoRet
    /\ UNCHANGED <<file, use_calls, categories, prompts, nextCat, nextPrompt, prompt_fields,
                   tag_vars>>

\* switch_prompt_version, first step: the connection is opened and
\* _prompt_exists runs its SELECT
SvExists(call, prompt_id, version) ==
    /\ calls[call].at = "idle"
    /\ calls' = [calls EXCEPT ![call] =
          [op |-> "switch_prompt_version", prompt_id |-> prompt_id, version |-> version,
           target_version |-> None,
           at |-> IF _prompt_exists(prompt_fields, prompt_id) THEN "select" ELSE "done",
           outcome |-> IF _prompt_exists(prompt_fields, prompt_id) THEN "none" ELSE "None"]]
    /\ ret' = NoRet
    /\ UNCHANGED <<file, use_vars, categories, prompts, nextCat, nextPrompt, version_vars,
                   tag_vars>>

\* switch_prompt_version: the SELECT of the version row and `if not target_version`
SvSelect(call) ==
    /\ calls[call].op = "switch_prompt_version"
    /\ calls[call].at = "select"
    /\ LET vers == VersionsOf(prompt_versions, calls[call].prompt_id)
           found == VersionRows(vers, calls[call].version)
       IN  IF found = {}
           THEN calls' = [calls EXCEPT ![call].at = "done", ![call].outcome = "None"]
           ELSE \E row \in found :
                   calls' = [calls EXCEPT ![call].at = "update",
                                          ![call].target_version = vers[row]]
    /\ ret' = NoRet
    /\ UNCHANGED <<file, use_vars, categories, prompts, nextCat, nextPrompt, version_vars,
                   tag_vars>>

\* switch_prompt_version: the UPDATE opens the transaction and takes the write lock
SvUpdate(call) ==
    /\ calls[call].op = "switch_prompt_version"
    /\ calls[call].at = "update"
    /\ db_lock = None
    /\ db_lock' = call
    /\ calls' = [calls EXCEPT ![call].at = "commit"]
    /\ ret' = NoRet
    /\ UNCHANGED <<file, use_calls, categories, prompts, nextCat, nextPrompt, version_vars,
                   tag_vars>>

\* switch_prompt_version, last step: conn.commit() stores the prompt's row and
\* releases the lock
SvCommit(call) ==
    /\ calls[call].op = "switch_prompt_version"
    /\ calls[call].at = "commit"
    /\ db_lock = call
    /\ db_lock' = None
    /\ prompt_fields' =
          IF calls[call].prompt_id \in DOMAIN prompt_fields
          THEN [prompt_fields EXCEPT ![calls[call].prompt_id] =
                  switch_prompt_version_write(@, calls[call].version,
                                              calls[call].target_version)]
          ELSE prompt_fields
    /\ calls' = [calls EXCEPT ![call].at = "done", ![call].outcome = "ok"]
    /\ ret' = NoRet
    /\ UNCHANGED <<file, use_calls, categories, prompts, nextCat, nextPrompt, prompt_versions,
                   tag_vars>>

\* the writing statement of a call while another connection holds the write
\* lock: it waits, and raises sqlite3.OperationalError (database is locked) when
\* the connection's timeout ends first
CallLocked(call) ==
    /\ calls[call].at \in {"delete", "update"}
    /\ db_lock # None
    /\ calls' = [calls EXCEPT ![call].at = "done", ![call].outcome = "OperationalError"]
    /\ ret' = NoRet
    /\ UNCHANGED <<file, use_vars, categories, prompts, nextCat, nextPrompt, version_vars,
                   tag_vars>>

(* ---------------- concurrent calls on the category tree ---------------- *)
\* the statements of update_category from its UPDATE on, with _update_category_paths
\* not walking the parent links: no RecursionError stops the transaction
update_category_write_paths_kept(cats, prm, category_id, old_name, old_path, new_parent_id, sets_level, new_level) ==
    IF ~Exists(cats, category_id) THEN [outcome |-> "TypeError", cats |-> cats, prm |-> prm]
    ELSE
    LET updated == [cats EXCEPT ![category_id] =
                       [@ EXCEPT !.parent_id = new_parent_id,
                                 !.level = IF sets_level THEN new_level ELSE @]]
    IN  IF ~ParentFkOk(updated)
          THEN [outcome |-> "IntegrityError", cats |-> cats, prm |-> prm]
        ELSE [outcome |-> "ok", cats |-> updated, prm |-> prm]

\* the statements of update_category(category_id, {"parent_id": new_parent_id})
\* from its UPDATE on, which run in one transaction: the UPDATE of the category,
\* _update_category_paths, the SELECT of the updated row and the UPDATE of the
\* prompts. old_name and old_path are what the call's first SELECT returned,
\* sets_level and new_level what it put into update_data["level"].
update_category_write(cats, prm, category_id, old_name, old_path, new_parent_id, sets_level, new_level) ==
    IF ~Exists(cats, category_id) THEN [outcome |-> "TypeError", cats |-> cats, prm |-> prm]
    ELSE
    LET updated == [cats EXCEPT ![category_id] =
                       [@ EXCEPT !.parent_id = new_parent_id,
                                 !.level = IF sets_level THEN new_level ELSE @]]
        repathed == _update_category_paths(updated)
        new_path == repathed[category_id].path
    IN  IF ~ParentFkOk(updated)
          THEN [outcome |-> "IntegrityError", cats |-> cats, prm |-> prm]
        ELSE IF PathsFail(updated)
          THEN [outcome |-> "RecursionError", cats |-> cats, prm |-> prm]
        ELSE [outcome |-> "ok", cats |-> repathed,
              prm |-> IF old_path # new_path
                      THEN SyncPrompts(prm, category_id, old_name,
                                       repathed[category_id].name, new_path)
                      ELSE prm]

\* update_category, first step: the connection is opened and the category is
\* selected
UcExists(call, category_id, new_parent_id) ==
    /\ calls[call].at = "idle"
    /\ calls' = [calls EXCEPT ![call] =
          IF ~Exists(categories, category_id)
          THEN [op |-> "update_category", category_id |-> category_id,
                new_parent_id |-> new_parent_id, at |-> "done", outcome |-> "None"]
          ELSE [op |-> "update_category", category_id |-> category_id,
                new_parent_id |-> new_parent_id,
                old_name |-> categories[category_id].name,
                old_path |-> categories[category_id].path,
                sets_level |-> new_parent_id = None, new_level |-> 1,
                at |-> IF new_parent_id # None THEN "cycle" ELSE "update",
                outcome |-> "none"]]
    /\ ret' = NoRet
    /\ UNCHANGED <<file, use_vars, categories, prompts, nextCat, nextPrompt, version_vars,
                   tag_vars>>

\* update_category: `if new_parent_id and self._would_create_cycle(...)`, which
\* reads the descendants on a connection of its own
UcCycle(call) ==
    /\ calls[call].op = "update_category"
    /\ calls[call].at = "cycle"
    /\ calls' = [calls EXCEPT ![call] =
          IF RecErr \in get_category_descendants(categories, calls[call].category_id)
            THEN [@ EXCEPT !.at = "done", !.outcome = "RecursionError"]
          ELSE IF _would_create_cycle(categories, calls[call].category_id,
                                      calls[call].new_parent_id)
            THEN [@ EXCEPT !.at = "done", !.outcome = "ValueError:cycle"]
          ELSE [@ EXCEPT !.at = "level"]]
    /\ ret' = NoRet
    /\ UNCHANGED <<file, use_vars, categories, prompts, nextCat, nextPrompt, version_vars,
                   tag_vars>>

\* update_category: the SELECT of the new parent's level and `if new_level > 5`
UcLevel(call) ==
    /\ calls[call].op = "update_category"
    /\ calls[call].at = "level"
    /\ LET parent == calls[call].new_parent_id
       IN  calls' = [calls EXCEPT ![call] =
              IF ~Exists(categories, parent) THEN [@ EXCEPT !.at = "update"]
              ELSE IF categories[parent].level + 1 > MaxLevel
                THEN [@ EXCEPT !.at = "done", !.outcome = "ValueError:depth"]
              ELSE [@ EXCEPT !.at = "update", !.sets_level = TRUE,
                             !.new_level = categories[parent].level + 1]]
    /\ ret' = NoRet
    /\ UNCHANGED <<file, use_vars, categories, prompts, nextCat, nextPrompt, version_vars,
                   tag_vars>>

\* what the transaction of the call writes to the tables as they are committed
UcWrite(call) ==
    update_category_write(categories, prompts, calls[call].category_id,
                          calls[call].old_name, calls[call].old_path,
                          calls[call].new_parent_id, calls[call].sets_level,
                          calls[call].new_level)

\* update_category: the UPDATE opens the transaction and takes the write lock;
\* the statements up to the commit run in it, and an exception among them ends
\* the call without a commit: conn.close() rolls back
UcUpdate(call) ==
    /\ calls[call].op = "update_category"
    /\ calls[call].at = "update"
    /\ db_lock = None
    /\ IF UcWrite(call).outcome # "ok"
       THEN /\ calls' = [calls EXCEPT ![call].at = "done",
                                     ![call].outcome = UcWrite(call).outcome]
            /\ db_lock' = db_lock
       ELSE /\ calls' = [calls EXCEPT ![call].at = "commit"]
            /\ db_lock' = call
    /\ ret' = NoRet
    /\ UNCHANGED <<file, use_calls, categories, prompts, nextCat, nextPrompt, version_vars,
                   tag_vars>>

\* update_category, last step: conn.commit() stores the rows and releases the lock
UcCommit(call) ==
    /\ calls[call].op = "update_category"
    /\ calls[call].at = "commit"
    /\ db_lock = call
    /\ db_lock' = None
    /\ categories' = UcWrite(call).cats
    /\ prompts' = UcWrite(call).prm
    /\ calls' = [calls EXCEPT ![call].at = "done", ![call].outcome = "ok"]
    /\ ret' = NoRet
    /\ UNCHANGED <<file, use_calls, nextCat, nextPrompt, version_vars, tag_vars>>

(* -------------------------- specifications ----------------------------- *)
\* Spec: categories and prompts together; traces the moves and the force deletes
Next ==
    \/ \E name \in Names, parent_id \in CatIds \cup {None} :
          CreateCategory(name, parent_id, MaxCats, FALSE)
    \/ \E category_id \in CatIds, name \in Names : RenameCategory(category_id, name, FALSE)
    \/ \E category_id \in CatIds, new_parent_id \in CatIds \cup {None} :
          MoveCategory(category_id, FALSE, "", new_parent_id, TRUE)
    \/ \E category_id \in CatIds : ForceDeleteCategory(category_id, TRUE)
    \/ \E prompt_id \in PromptIds, category_id \in CatIds \cup {None}, category \in LegacyNames :
          CreatePrompt(prompt_id, category_id, category, PromptData, << >>)
    \/ \E prompt_id \in PromptIds, category_id \in CatIds \cup {None} :
          UpdatePrompt(prompt_id, category_id)

Spec == Init /\ [][Next]_vars

\* SpecTree: the shape of the category tree; traces the moves and the force deletes
NextTree ==
    \/ \E name \in TreeNames, parent_id \in TreeCatIds \cup {None} :
          CreateCategory(name, parent_id, MaxTreeCats, FALSE)
    \/ \E category_id \in TreeCatIds, new_parent_id \in TreeCatIds \cup {None} :
          MoveCategory(category_id, FALSE, "", new_parent_id, TRUE)
    \/ \E category_id \in TreeCatIds : ForceDeleteCategory(category_id, TRUE)

SpecTree == Init /\ [][NextTree]_vars

\* SpecPath: names that may be empty; a move may rename in the same call
NextPath ==
    \/ \E name \in PathNames, parent_id \in PathCatIds \cup {None} :
          CreateCategory(name, parent_id, MaxPathCats, FALSE)
    \/ \E category_id \in PathCatIds, name \in PathNames :
          RenameCategory(category_id, name, FALSE)
    \/ \E category_id \in PathCatIds, has_name \in BOOLEAN, name \in PathNames,
          new_parent_id \in PathCatIds \cup {None} :
          /\ ~has_name => name = ""
          /\ MoveCategory(category_id, has_name, name, new_parent_id, FALSE)
    \/ \E category_id \in PathCatIds : ForceDeleteCategory(category_id, FALSE)

SpecPath == Init /\ [][NextPath]_vars

\* SpecDeep: trees deep enough to meet the level limit: every create, the moves
\* under a category of one of the two deepest levels, and a prompt in the
\* seeded category; traces the creates and the moves
NextDeep ==
    \/ \E name \in TreeNames, parent_id \in DeepCatIds \cup {None} :
          CreateCategory(name, parent_id, MaxDeepCats, TRUE)
    \/ \E category_id \in DeepCatIds,
          new_parent_id \in {p \in DOMAIN categories : categories[p].level >= MaxLevel - 1} :
          MoveCategory(category_id, FALSE, "", new_parent_id, TRUE)
    \/ \E prompt_id \in PromptIds : CreatePrompt(prompt_id, UncategorizedId, OtherName, PromptData, << >>)

SpecDeep == Init /\ [][NextDeep]_vars

\* SpecVersion: the version history of two prompts; traces the version calls
NextVersion ==
    \/ \E prompt_id \in VersionPromptIds, n \in TextIds :
          CreatePrompt(prompt_id, None, OtherName, Text(n), << >>)
    \/ \E prompt_id \in VersionPromptIds, n \in TextIds :
          UpdatePromptFields(prompt_id, Text(n))
    \/ \E prompt_id \in VersionPromptIds, version_data \in VersionData :
          CreateVersion(prompt_id, version_data, TRUE)
    \/ \E prompt_id \in VersionPromptIds, version \in Labels :
          SwitchVersion(prompt_id, version, TRUE)
    \/ \E prompt_id \in VersionPromptIds, version \in Labels :
          DeleteVersion(prompt_id, version, TRUE)

SpecVersion == Init /\ [][NextVersion]_vars

\* SpecTag: the tag registry and the tags of two prompts; traces the tag calls
NextTag ==
    \/ \E prompt_id \in TagPromptIds, tag_names \in TagLists :
          CreatePrompt(prompt_id, None, OtherName, PromptData, tag_names)
    \/ \E prompt_id \in TagPromptIds, tag_names \in TagLists :
          UpdatePromptTags(prompt_id, tag_names)
    \/ \E name \in TagNames, color \in TagColors : CreateTag(name, color, TRUE)
    \/ \E tag_id \in TagIds, name \in TagNames : UpdateTag(tag_id, name, TRUE)
    \/ \E tag_id \in TagIds : DeleteTag(tag_id, TRUE)

SpecTag == Init /\ [][NextTag]_vars

\* SpecPreview: categories, a prompt with a tag and a second version, and the
\* delete preview; traces the previews
NextPreview ==
    \/ \E name \in Names, parent_id \in PreviewCatIds \cup {None} :
          CreateCategory(name, parent_id, MaxPreviewCats, FALSE)
    \/ \E prompt_id \in PromptIds, category_id \in PreviewCatIds \cup {None},
          tag_names \in {<< >>, <<<<"a">>>>} :
          CreatePrompt(prompt_id, category_id, OtherName, PromptData, tag_names)
    \/ \E prompt_id \in PromptIds : CreateVersion(prompt_id, [version |-> "1.1"] @@ Text(1), FALSE)
    \/ \E category_id \in PreviewCatIds : DeleteCategory(category_id, TRUE)

SpecPreview == Init /\ [][NextPreview]_vars

\* SpecUse: use_prompt calls on two prompts, each call on its own connection,
\* interleaved statement by statement; create_prompt is a transaction of its
\* own and waits for the write lock
NextUse ==
    \/ \E prompt_id \in UsePromptIds :
          db_lock = None /\ CreatePrompt(prompt_id, None, OtherName, PromptData, << >>)
    \/ \E call \in UseCalls, prompt_id \in UsePromptIds : UseSelect(call, prompt_id)
    \/ \E call \in UseCalls : UseUpdate(call)
    \/ \E call \in UseCalls : UseLocked(call)
    \/ \E call \in UseCalls : UseCommit(call)

SpecUse == Init /\ [][NextUse]_vars

\* SpecDelete: two prompts with tags and versions in a category, and their
\* deletion; traces the deletions
NextDelete ==
    \/ \E name \in TreeNames : CreateCategory(name, None, 1, FALSE)
    \/ \E prompt_id \in DeletePromptIds, category_id \in {None, 1},
          tag_names \in DeleteTagLists :
          CreatePrompt(prompt_id, category_id, OtherName, PromptData, tag_names)
    \/ \E prompt_id \in DeletePromptIds :
          CreateVersion(prompt_id, [version |-> "1.1"] @@ Text(1), FALSE)
    \/ \E prompt_id \in DeletePromptIds : DeletePrompt(prompt_id, TRUE)

SpecDelete == Init /\ [][NextDelete]_vars

\* SpecUpdate: two prompts with versions and tags, a category, and update_prompt
\* on the first prompt; traces the updates
NextUpdate ==
    \/ \E name \in {"b"} : CreateCategory(name, None, 1, FALSE)
    \/ \E prompt_id \in UpdatePromptIds, category_id \in {None, 1} :
          CreatePrompt(prompt_id, category_id, OtherName, PromptData, <<<<"a">>>>)
    \/ \E prompt_id \in {1} :
          CreateVersion(prompt_id, [version |-> "1.1"] @@ Text(0), FALSE)
    \/ \E prompt_id \in {1}, update_data \in UpdateData :
          UpdatePromptData(prompt_id, update_data, TRUE)

SpecUpdate == Init /\ [][NextUpdate]_vars

\* SpecAll: every operation of the storage class on one category, one prompt and
\* the tags; traces the use_prompt calls and the delete previews
NextAll ==
    \/ \E name \in TreeNames, parent_id \in {None, UncategorizedId} :
          CreateCategory(name, parent_id, MaxAllCats, FALSE)
    \/ \E category_id \in AllCatIds : RenameCategory(category_id, "b", FALSE)
    \/ \E category_id \in AllCatIds, new_parent_id \in {None, UncategorizedId} :
          MoveCategory(category_id, FALSE, "", new_parent_id, FALSE)
    \/ \E category_id \in AllCatIds : DeleteCategory(category_id, TRUE)
    \/ \E category_id \in AllCatIds : ForceDeleteCategory(category_id, FALSE)
    \/ \E prompt_id \in AllPromptIds, category_id \in {None, 1},
          tag_names \in {<< >>, <<<<"a">>>>} :
          CreatePrompt(prompt_id, category_id, OtherName, PromptData, tag_names)
    \/ \E prompt_id \in AllPromptIds, update_data \in AllUpdateData :
          UpdatePromptData(prompt_id, update_data, FALSE)
    \/ \E prompt_id \in AllPromptIds : DeletePrompt(prompt_id, FALSE)
    \/ \E prompt_id \in AllPromptIds :
          /\ prompt_id \in DOMAIN prompt_fields =>
                prompt_fields[prompt_id].usage_count < MaxAllUses
          /\ UsePrompt(prompt_id, TRUE)
    \/ \E prompt_id \in AllPromptIds :
          CreateVersion(prompt_id, [version |-> "1.1"] @@ Text(1), FALSE)
    \/ \E prompt_id \in AllPromptIds, version \in Labels :
          SwitchVersion(prompt_id, version, FALSE)
    \/ \E prompt_id \in AllPromptIds, version \in Labels :
          DeleteVersion(prompt_id, version, FALSE)
    \/ \E name \in {<<"a">>} : CreateTag(name, DefaultColor, FALSE)
    \/ \E tag_id \in TagIds : UpdateTag(tag_id, <<"b">>, FALSE)
    \/ \E tag_id \in TagIds : DeleteTag(tag_id, FALSE)

SpecAll == Init /\ [][NextAll]_vars

\* SpecMissing: a category, a prompt with a tag and versions, a tag, and every
\* operation that takes an id addressed to an id of nothing; traces these calls
NextMissing ==
    \/ \E name \in Names, parent_id \in {None, UncategorizedId} :
          CreateCategory(name, parent_id, MaxAllCats, FALSE)
    \/ \E prompt_id \in AllPromptIds, category_id \in {None, 1},
          tag_names \in {<< >>, <<<<"a">>>>} :
          CreatePrompt(prompt_id, category_id, OtherName, PromptData, tag_names)
    \/ \E prompt_id \in AllPromptIds :
          CreateVersion(prompt_id, [version |-> "1.1"] @@ Text(1), FALSE)
    \/ \E name \in {<<"b">>} : CreateTag(name, DefaultColor, FALSE)
    \/ \E category_id \in MissingCatIds : RenameCategory(category_id, "b", TRUE)
    \/ \E category_id \in MissingCatIds, new_parent_id \in {None, UncategorizedId} :
          MoveCategory(category_id, FALSE, "", new_parent_id, TRUE)
    \/ \E category_id \in MissingCatIds : DeleteCategory(category_id, TRUE)
    \/ \E category_id \in MissingCatIds : ForceDeleteCategory(category_id, TRUE)
    \/ \E prompt_id \in MissingPromptIds, update_data \in AllUpdateData :
          UpdatePromptData(prompt_id, update_data, TRUE)
    \/ \E prompt_id \in MissingPromptIds : DeletePrompt(prompt_id, TRUE)
    \/ \E prompt_id \in MissingPromptIds : UsePrompt(prompt_id, TRUE)
    \/ \E prompt_id \in MissingPromptIds :
          CreateVersion(prompt_id, [version |-> "1.1"] @@ Text(1), TRUE)
    \/ \E prompt_id \in MissingPromptIds, version \in Labels :
          SwitchVersion(prompt_id, version, TRUE)
    \/ \E prompt_id \in MissingPromptIds, version \in Labels :
          DeleteVersion(prompt_id, version, TRUE)
    \/ \E tag_id \in MissingTagIds : UpdateTag(tag_id, <<"b">>, TRUE)
    \/ \E tag_id \in MissingTagIds : DeleteTag(tag_id, TRUE)

SpecMissing == Init /\ [][NextMissing]_vars

\* SpecSearch: two prompts in a category tree and the search by category;
\* traces the searches
NextSearch ==
    \/ \E name \in TreeNames, parent_id \in SearchCatIds \cup {None} :
          CreateCategory(name, parent_id, MaxSearchCats, FALSE)
    \/ \E prompt_id \in SearchPromptIds, category_id \in SearchCatIds \cup {None} :
          CreatePrompt(prompt_id, category_id, OtherName, PromptData, << >>)
    \/ \E category \in {"", "a", OtherName}, category_id \in SearchCatIds \cup {None} :
          SearchPrompts(<< >>, category, category_id, TRUE)

SpecSearch == Init /\ [][NextSearch]_vars

\* SpecQuery: two prompts with texts and the search by query; traces the searches
NextQuery ==
    \/ \E prompt_id \in SearchPromptIds, prompt_data \in QueryData :
          CreatePrompt(prompt_id, None, OtherName, prompt_data, << >>)
    \/ \E query \in Queries : SearchPrompts(query, "", None, TRUE)

SpecQuery == Init /\ [][NextQuery]_vars

\* SpecSync: categories, two prompts that name a category by id or by name
\* only, and update_category with a name, a parent, both, or a color; traces
\* the updates
NextSync ==
    \/ \E name \in TreeNames, parent_id \in SyncCatIds \cup {None} :
          CreateCategory(name, parent_id, MaxSyncCats, FALSE)
    \/ \E prompt_id \in SyncPromptIds, category_id \in SyncCatIds \cup {None} :
          CreatePrompt(prompt_id, category_id, "a", PromptData, << >>)
    \/ \E category_id \in SyncCatIds, name \in SyncNames :
          RenameCategory(category_id, name, TRUE)
    \/ \E category_id \in SyncCatIds, name \in {"", "b"},
          new_parent_id \in SyncCatIds \cup {None} :
          MoveCategory(category_id, name # "", name, new_parent_id, TRUE)
    \/ \E category_id \in SyncCatIds : RecolorCategory(category_id, TRUE)

SpecSync == Init /\ [][NextSync]_vars

\* SpecDesc: the category trees that creates, re-parentings and force deletes
\* build, and get_category_descendants on each category; traces the calls of
\* get_category_descendants
NextDesc ==
    \/ \E name \in TreeNames, parent_id \in DescCatIds \cup {None} :
          CreateCategory(name, parent_id, MaxDescCats, FALSE)
    \/ \E category_id \in DescCatIds, new_parent_id \in DescCatIds \cup {None} :
          MoveCategory(category_id, FALSE, "", new_parent_id, FALSE)
    \/ \E category_id \in DescCatIds : ForceDeleteCategory(category_id, FALSE)
    \/ \E category_id \in DescCatIds : GetDescendants(category_id, TRUE)

SpecDesc == Init /\ [][NextDesc]_vars

\* SpecVersionRace: a prompt with its versions, and delete_prompt_version and
\* switch_prompt_version calls on it that run concurrently, interleaved
\* statement by statement; create_prompt and create_prompt_version are
\* transactions of their own
NextVersionRace ==
    \/ \E prompt_id \in RacePromptIds :
          db_lock = None /\ CreatePrompt(prompt_id, None, OtherName, Text(0), << >>)
    \/ \E prompt_id \in RacePromptIds :
          db_lock = None /\ CreateVersion(prompt_id, [version |-> "1.1"] @@ Text(1), FALSE)
    \/ \E call \in Calls, prompt_id \in RacePromptIds, version \in Labels :
          DvExists(call, prompt_id, version)
    \/ \E call \in Calls : DvCount(call)
    \/ \E call \in Calls : DvCurrent(call)
    \/ \E call \in Calls : DvDelete(call)
    \/ \E call \in Calls : DvCommit(call)
    \/ \E call \in Calls, prompt_id \in RacePromptIds, version \in Labels :
          SvExists(call, prompt_id, version)
    \/ \E call \in Calls : SvSelect(call)
    \/ \E call \in Calls : SvUpdate(call)
    \/ \E call \in Calls : SvCommit(call)
    \/ \E call \in Calls : CallLocked(call)

SpecVersionRace == Init /\ [][NextVersionRace]_vars

\* SpecMoveRace: the category tree and update_category calls that re-parent
\* concurrently, interleaved statement by statement; create_category is a
\* transaction of its own
NextMoveRace ==
    \/ \E name \in TreeNames, parent_id \in RaceCatIds \cup {None} :
          db_lock = None /\ CreateCategory(name, parent_id, MaxRaceCats, FALSE)
    \/ \E call \in Calls, category_id \in RaceCatIds, new_parent_id \in RaceCatIds \cup {None} :
          UcExists(call, category_id, new_parent_id)
    \/ \E call \in Calls : UcCycle(call)
    \/ \E call \in Calls : UcLevel(call)
    \/ \E call \in Calls : UcUpdate(call)
    \/ \E call \in Calls : UcCommit(call)
    \/ \E call \in Calls : CallLocked(call)

SpecMoveRace == Init /\ [][NextMoveRace]_vars

(* ------------------- FileStorage: data/prompts.json -------------------- *)
\* Every FileStorage method reads the whole file with _load_data, changes its
\* own copy of the data and writes the whole copy back with _save_data. The
\* model keeps the "prompts" list of the file, each prompt with its id, title
\* and usage_count. Nothing in the class serializes two calls.

\* the index of the first prompt of the list with this id, 0 when there is none
FilePromptIndex(data, prompt_id) ==
    IF \E i \in DOMAIN data : data[i].id = prompt_id
    THEN CHOOSE i \in DOMAIN data :
            /\ data[i].id = prompt_id
            /\ \A j \in 1 .. i - 1 : data[j].id # prompt_id
    ELSE 0

\* FileStorage.create_prompt on the loaded data
FileStorage_create_prompt(data, prompt_id, title) ==
    Append(data, [id |-> prompt_id, title |-> title, usage_count |-> 0])

\* FileStorage.update_prompt on the loaded data: prompt.update(update_data) on
\* the first prompt with the id; update_data here carries a title
FileStorage_update_prompt(data, prompt_id, title) ==
    LET i == FilePromptIndex(data, prompt_id)
    IN  IF i = 0 THEN data ELSE [data EXCEPT ![i].title = title]

\* FileStorage.use_prompt on the loaded data
FileStorage_use_prompt(data, prompt_id) ==
    LET i == FilePromptIndex(data, prompt_id)
    IN  IF i = 0 THEN data ELSE [data EXCEPT ![i].usage_count = @ + 1]

\* FileStorage.create_prompt run from its load to its save; prompt_id stands
\* for the fresh uuid4
FileCreatePrompt(prompt_id, title) ==
    /\ FilePromptIndex(file, prompt_id) = 0
    /\ file' = FileStorage_create_prompt(file, prompt_id, title)
    /\ ret' = NoRet
    /\ UNCHANGED <<calls, use_vars, categories, prompts, nextCat, nextPrompt, version_vars,
                   tag_vars>>

\* use_prompt or update_prompt, first step: data = self._load_data(), then the
\* loop over the call's own copy; without the prompt the call returns None
FileLoad(call, op, prompt_id, title) ==
    /\ calls[call].at = "idle"
    /\ op \in {"use_prompt", "update_prompt"}
    /\ LET found == FilePromptIndex(file, prompt_id) # 0
           data == IF op = "use_prompt"
                   THEN FileStorage_use_prompt(file, prompt_id)
                   ELSE FileStorage_update_prompt(file, prompt_id, title)
       IN  calls' = [calls EXCEPT ![call] =
              [op |-> op, prompt_id |-> prompt_id, title |-> title, data |-> data,
               at |-> IF found THEN "save" ELSE "done",
               outcome |-> IF found THEN "none" ELSE "None"]]
    /\ ret' = NoRet
    /\ UNCHANGED <<file, use_vars, categories, prompts, nextCat, nextPrompt, version_vars,
                   tag_vars>>

\* use_prompt or update_prompt, second step: self._save_data(data) writes the
\* call's copy over the file
FileSave(call) ==
    /\ calls[call].op \in {"use_prompt", "update_prompt"}
    /\ calls[call].at = "save"
    /\ file' = calls[call].data
    /\ calls' = [calls EXCEPT ![call] = [@ EXCEPT !.at = "done", !.outcome = "ok"]]
    /\ ret' = NoRet
    /\ UNCHANGED <<use_vars, categories, prompts, nextCat, nextPrompt, version_vars,
                   tag_vars>>

\* SpecImpact: categories, a prompt, the delete preview and the force delete;
\* traces the previews and the force deletes
NextImpact ==
    \/ \E name \in Names, parent_id \in PreviewCatIds \cup {None} :
          CreateCategory(name, parent_id, MaxPreviewCats, FALSE)
    \/ \E prompt_id \in PromptIds, category_id \in PreviewCatIds \cup {None},
          category \in LegacyNames :
          CreatePrompt(prompt_id, category_id, category, PromptData, << >>)
    \/ \E category_id \in PreviewCatIds : DeleteCategory(category_id, TRUE)
    \/ \E category_id \in PreviewCatIds : ForceDeleteCategory(category_id, TRUE)

SpecImpact == Init /\ [][NextImpact]_vars

\* SpecFile: the prompts of data/prompts.json are created, then use_prompt and
\* update_prompt calls run concurrently, each a load and a save
NextFile ==
    \/ \E prompt_id \in FilePromptIds :
          /\ \A call \in Calls : calls[call].at = "idle"
          /\ FileCreatePrompt(prompt_id, "t")
    \/ \E call \in Calls, op \in {"use_prompt", "update_prompt"},
          prompt_id \in FilePromptIds :
          FileLoad(call, op, prompt_id, "u")
    \/ \E call \in Calls : FileSave(call)

SpecFile == Init /\ [][NextFile]_vars

(* ------------------------------ claims --------------------------------- *)
\* The tree as the parent_id links define it, walked independently of the
\* storage class's own helpers.
RECURSIVE AncestorsFrom(_, _, _)
AncestorsFrom(cats, c, steps) ==
    IF steps = 0 \/ c \notin DOMAIN cats \/ cats[c].parent_id = None THEN {}
    ELSE {cats[c].parent_id} \cup AncestorsFrom(cats, cats[c].parent_id, steps - 1)

\* the categories reached from c by following parent_id links
Ancestors(cats, c) == AncestorsFrom(cats, c, Cardinality(DOMAIN cats))

\* the categories from which c is reached by following parent_id links
Descendants(cats, c) == {d \in DOMAIN cats : c \in Ancestors(cats, d)}

\* the number of categories on the chain of parent links from c up to its root
Depth(cats, c) == Cardinality(Ancestors(cats, c)) + 1

\* C1: after any sequence of category creates, re-parentings and force deletes
\* no category is reached from itself by following parent_id links.
C1_Acyclic == \A c \in DOMAIN categories : c \notin Ancestors(categories, c)

\* a category that has a child was moved under another category, and the call
\* succeeded
C1_Witness ==
    /\ ret.op = "update_category:parent_id"
    /\ ret.outcome = "ok"
    /\ \E c \in DOMAIN categories :
         categories[c].parent_id # None /\ Children(categories, c) # {}

\* C2: every prompt whose category_id references an existing category carries
\* that category's current name and path as category_name and category_path.
C2_PromptsInSync ==
    \A p \in DOMAIN prompts :
        prompts[p].category_id \in DOMAIN categories =>
            /\ prompts[p].category_name = categories[prompts[p].category_id].name
            /\ prompts[p].category_path = categories[prompts[p].category_id].path

\* C3: every category has level 1 when its parent_id is null and its parent's
\* level + 1 otherwise.
C3_LevelIsParentLevelPlusOne ==
    \A c \in DOMAIN categories :
        IF categories[c].parent_id = None THEN categories[c].level = 1
        ELSE /\ categories[c].parent_id \in DOMAIN categories
             /\ categories[c].level = categories[categories[c].parent_id].level + 1

\* C4: every category has path equal to its name when it is a root and to its
\* parent's path + "/" + its name otherwise.
C4_PathIsParentPathSlashName ==
    \A c \in DOMAIN categories :
        IF categories[c].parent_id = None THEN categories[c].path = categories[c].name
        ELSE /\ categories[c].parent_id \in DOMAIN categories
             /\ categories[c].path =
                  categories[categories[c].parent_id].path \o "/" \o categories[c].name

\* a call that failed left every category and every prompt as they were
FailedCallChangedNothing == categories' = categories /\ prompts' = prompts

\* C5: update_category(id, {"parent_id": P}) on an existing category id fails
\* with the cycle error whenever P is id or a descendant of id, and a failing
\* re-parenting leaves every category and every prompt unchanged.
C5_CycleRejected ==
    [][ret'.op = "update_category:parent_id" =>
         /\ \A id \in DOMAIN categories, P \in DOMAIN categories :
              (/\ P = id \/ P \in Descendants(categories, id)
               /\ MoveCategory(id, FALSE, "", P, TRUE))
              => ret'.outcome = "ValueError:cycle"
         /\ ret'.outcome # "ok" => FailedCallChangedNothing]_vars

\* a re-parenting was refused with the cycle error while a category had a
\* child and a prompt existed
C5_Witness ==
    /\ ret.op = "update_category:parent_id"
    /\ ret.outcome = "ValueError:cycle"
    /\ \E c \in DOMAIN categories : Children(categories, c) # {}
    /\ DOMAIN prompts # {}

\* the path the parent links and the names give to c
RECURSIVE TreePath(_, _, _)
TreePath(cats, c, steps) ==
    IF steps = 0 \/ cats[c].parent_id \notin DOMAIN cats THEN cats[c].name
    ELSE TreePath(cats, cats[c].parent_id, steps - 1) \o "/" \o cats[c].name

\* C6: update_category(id, {"parent_id": P}) with P an existing category that is
\* neither id nor a descendant of id succeeds, and afterwards id and every
\* descendant of id have the level and the path of their new position.
C6_MoveToUnrelatedSucceeds ==
    [][ret'.op = "update_category:parent_id" =>
         \A id \in DOMAIN categories, P \in DOMAIN categories :
            (/\ P # id
             /\ P \notin Descendants(categories, id)
             /\ MoveCategory(id, FALSE, "", P, TRUE))
            => /\ ret'.outcome = "ok"
               /\ \A c \in {id} \cup Descendants(categories', id) :
                    /\ categories'[c].level = Depth(categories', c)
                    /\ categories'[c].path =
                         TreePath(categories', c, Cardinality(DOMAIN categories'))]_vars

\* C7: create_category under a parent P and update_category(id, {"parent_id": P})
\* fail with a ValueError whenever P's level + 1 exceeds 5, and a failing create
\* or re-parenting adds no category and changes no category and no prompt.
C7_DepthRejected ==
    [][/\ ret'.op = "create_category" =>
            \A name \in TreeNames, P \in DOMAIN categories :
               (/\ categories[P].level + 1 > MaxLevel
                /\ CreateCategory(name, P, MaxDeepCats, TRUE))
               => ret'.outcome = "ValueError:depth"
       /\ ret'.op = "update_category:parent_id" =>
            \A id \in DOMAIN categories, P \in DOMAIN categories :
               (/\ categories[P].level + 1 > MaxLevel
                /\ MoveCategory(id, FALSE, "", P, TRUE))
               => ret'.outcome \in {"ValueError:depth", "ValueError:cycle"}
       /\ (ret'.op # "none" /\ ret'.outcome # "ok") => FailedCallChangedNothing]_vars

\* a re-parenting was refused for its depth while a prompt existed
C7_Witness ==
    /\ ret.op = "update_category:parent_id"
    /\ ret.outcome = "ValueError:depth"
    /\ DOMAIN prompts # {}

\* C8: no category has a level greater than 5, and no chain of parent links
\* from a root down to a category contains more than 5 categories.
C8_DepthAtMostFive ==
    \A c \in DOMAIN categories :
        /\ categories[c].level <= MaxLevel
        /\ Depth(categories, c) <= MaxLevel

\* C9: after force_delete_category(C) on an existing category C every prompt
\* that referenced C or a descendant of C references the fallback category: its
\* category_id, category_name and category_path are those of the seeded
\* category, which exists.
C9_PromptsMoveToFallback ==
    [][ret'.op = "force_delete_category" =>
         \A C \in DOMAIN categories :
            ForceDeleteCategory(C, TRUE) =>
               \A p \in DOMAIN prompts :
                  prompts[p].category_id \in {C} \cup Descendants(categories, C) =>
                     /\ p \in DOMAIN prompts'
                     /\ \E f \in UncategorizedRows(categories') :
                          /\ prompts'[p].category_id = f
                          /\ prompts'[p].category_name = categories'[f].name
                          /\ prompts'[p].category_path = categories'[f].path]_vars

C12_AtLeastOneVersion ==
    \A p \in DOMAIN prompt_fields :
        p \in DOMAIN prompt_versions /\ Len(prompt_versions[p]) >= 1

\* a version was deleted from a prompt
C12_Witness ==
    /\ ret.op = "delete_prompt_version"
    /\ ret.outcome = "ok"

\* the version entries of prompt p labelled with p's current_version
ActiveRows(p) == {i \in DOMAIN prompt_versions[p] :
                     prompt_versions[p][i].version = prompt_fields[p].current_version}

\* C13: a prompt's current_version is the label of exactly one entry of its
\* version list.
C13_CurrentVersionLabelsOneEntry ==
    \A p \in DOMAIN prompt_fields : Cardinality(ActiveRows(p)) = 1

\* a sequence without its i-th element
RemoveAt(seq, i) == SubSeq(seq, 1, i - 1) \o SubSeq(seq, i + 1, Len(seq))

\* every prompt but p has its fields and its version list as before
OtherPromptsUnchanged(p) ==
    \A q \in DOMAIN prompt_fields \ {p} :
        /\ prompt_fields'[q] = prompt_fields[q]
        /\ prompt_versions'[q] = prompt_versions[q]

\* C14: delete_prompt_version(p, L) fails and changes nothing when p has one
\* version or L is p's current_version; otherwise, L labelling an entry, it
\* succeeds and removes that one entry only, leaving the other entries and
\* the prompt's own fields unchanged.
C14_DeleteVersionRules ==
    [][ret'.op = "delete_prompt_version" =>
         \A p \in DOMAIN prompt_fields, L \in Labels :
            DeleteVersion(p, L, TRUE) =>
               IF Len(prompt_versions[p]) = 1 \/ L = prompt_fields[p].current_version
               THEN /\ ret'.outcome # "ok"
                    /\ prompt_versions' = prompt_versions
                    /\ prompt_fields' = prompt_fields
               ELSE (\E i \in DOMAIN prompt_versions[p] : prompt_versions[p][i].version = L)
                    => /\ ret'.outcome = "ok"
                       /\ \E i \in DOMAIN prompt_versions[p] :
                            /\ prompt_versions[p][i].version = L
                            /\ prompt_versions'[p] = RemoveAt(prompt_versions[p], i)
                       /\ prompt_fields' = prompt_fields
                       /\ OtherPromptsUnchanged(p)]_vars

\* C15: a prompt's title, content and description are those of its active
\* version, the version entry labelled current_version.
C15_FieldsMirrorActiveVersion ==
    \A p \in DOMAIN prompt_fields :
        /\ ActiveRows(p) # {}
        /\ \A i \in ActiveRows(p) :
             /\ prompt_fields[p].title = prompt_versions[p][i].title
             /\ prompt_fields[p].content = prompt_versions[p][i].content
             /\ prompt_fields[p].description = prompt_versions[p][i].description

\* C16: switch_prompt_version(p, L) fails and leaves the prompt unchanged when
\* p has no version labelled L; otherwise it succeeds, sets current_version to
\* L and copies the title, content and description of a version labelled L
\* onto the prompt; it never changes a version list.
C16_SwitchVersion ==
    [][ret'.op = "switch_prompt_version" =>
         \A p \in DOMAIN prompt_fields, L \in Labels :
            SwitchVersion(p, L, TRUE) =>
               /\ prompt_versions' = prompt_versions
               /\ OtherPromptsUnchanged(p)
               /\ IF \A i \in DOMAIN prompt_versions[p] : prompt_versions[p][i].version # L
                  THEN ret'.outcome # "ok" /\ prompt_fields' = prompt_fields
                  ELSE /\ ret'.outcome = "ok"
                       /\ prompt_fields'[p].current_version = L
                       /\ \E i \in DOMAIN prompt_versions[p] :
                            /\ prompt_versions[p][i].version = L
                            /\ prompt_fields'[p].title = prompt_versions[p][i].title
                            /\ prompt_fields'[p].content = prompt_versions[p][i].content
                            /\ prompt_fields'[p].description =
                                 prompt_versions[p][i].description]_vars

\* a switch succeeded on a prompt and made a version other than the newest one
\* the current one, its texts differing from the newest version's
C16_Witness ==
    /\ ret.op = "switch_prompt_version"
    /\ ret.outcome = "ok"
    /\ \E p \in DOMAIN prompt_fields :
         LET vers == prompt_versions[p]
         IN  /\ Len(vers) >= 2
             /\ vers[Len(vers)].version # prompt_fields[p].current_version
             /\ vers[Len(vers)].title # prompt_fields[p].title

\* C17: create_prompt_version(p, v) appends v as the last entry of p's version
\* list, makes v's label the current_version, copies v's title, content and
\* description onto the prompt and leaves every earlier entry unchanged.
C17_CreateVersionAppends ==
    [][ret'.op = "create_prompt_version" =>
         \A p \in DOMAIN prompt_fields, v \in VersionData :
            CreateVersion(p, v, TRUE) =>
               /\ ret'.outcome = "ok"
               /\ Len(prompt_versions'[p]) = Len(prompt_versions[p]) + 1
               /\ \A i \in DOMAIN prompt_versions[p] :
                    prompt_versions'[p][i] = prompt_versions[p][i]
               /\ prompt_versions'[p][Len(prompt_versions'[p])] = v
               /\ prompt_fields'[p] = [current_version |-> v.version, title |-> v.title,
                                       content |-> v.content, description |-> v.description,
                                       usage_count |-> prompt_fields[p].usage_count]
               /\ OtherPromptsUnchanged(p)]_vars

\* a version was created on a prompt that had two versions, under a label that
\* was not the current one
C17_Witness ==
    /\ ret.op = "create_prompt_version"
    /\ ret.outcome = "ok"
    /\ \E p \in DOMAIN prompt_fields :
         /\ Len(prompt_versions[p]) = 3
         /\ prompt_versions[p][2].version # prompt_fields[p].current_version

\* C11: delete_category on an existing category returns the impact preview,
\* not a success result, and the categories, prompts, tags, linkage and
\* versions are the same before and after the call.
C11_DeleteIsPreviewOnly ==
    [][ret'.op = "delete_category" =>
         \A id \in DOMAIN categories :
            DeleteCategory(id, TRUE) =>
               /\ ret'.outcome = "requires_confirmation"
               /\ categories' = categories
               /\ prompts' = prompts
               /\ prompt_fields' = prompt_fields
               /\ prompt_versions' = prompt_versions
               /\ tags' = tags
               /\ prompt_tags' = prompt_tags]_vars

\* the preview was returned for a category while a category without children
\* and without prompts existed, as did a prompt with a tag and two versions
C11_Witness ==
    /\ ret.op = "delete_category"
    /\ ret.outcome = "requires_confirmation"
    /\ \E c \in DOMAIN categories :
         /\ Children(categories, c) = {}
         /\ \A p \in DOMAIN prompts : prompts[p].category_id # c
    /\ \E p \in DOMAIN prompts :
         /\ Len(prompt_versions[p]) = 2
         /\ \E l \in prompt_tags : l[1] = p

\* C18: no two tags have the same name.
C18_TagNamesUnique ==
    \A t \in DOMAIN tags, u \in DOMAIN tags : t # u => tags[t].name # tags[u].name

\* a rename was refused because another tag had the name
C18_Witness ==
    /\ ret.op = "update_tag"
    /\ ret.outcome = "ValueError:name"
    /\ Cardinality(DOMAIN tags) = 2

\* C19: after update_tag(t, {"name": B}) renamed tag t from A to B, every prompt
\* whose tags read A before reads B and not A afterwards, and the prompts
\* linked to t are the same.
C19_RenameReachesPrompts ==
    [][(ret'.op = "update_tag" /\ ret'.outcome = "ok") =>
         \A t \in DOMAIN tags, B \in TagNames :
            (B # tags[t].name /\ UpdateTag(t, B, TRUE)) =>
               /\ \A p \in DOMAIN prompts :
                    tags[t].name \in get_prompt_tags(tags, prompt_tags, p) =>
                       /\ B \in get_prompt_tags(tags', prompt_tags', p)
                       /\ tags[t].name \notin get_prompt_tags(tags', prompt_tags', p)
               /\ {l \in prompt_tags' : l[2] = t} = {l \in prompt_tags : l[2] = t}]_vars

\* C20: delete_tag on an existing tag removes it from the registry and from
\* every prompt's tag set, returns the number of prompts that had it, and
\* leaves the other tags, the other links and every prompt's fields, category
\* and versions unchanged.
C20_DeleteTagFrame ==
    [][ret'.op = "delete_tag" =>
         \A t \in DOMAIN tags :
            DeleteTag(t, TRUE) =>
               /\ ret'.outcome = "ok"
               /\ DOMAIN tags' = DOMAIN tags \ {t}
               /\ \A u \in DOMAIN tags' : tags'[u] = tags[u]
               /\ prompt_tags' = {l \in prompt_tags : l[2] # t}
               /\ ret'.affected = Cardinality({p \in DOMAIN prompts : <<p, t>> \in prompt_tags})
               /\ prompts' = prompts
               /\ prompt_fields' = prompt_fields
               /\ prompt_versions' = prompt_versions]_vars

\* a tag that a prompt had was deleted, and a prompt still has another tag
C20_Witness ==
    /\ ret.op = "delete_tag"
    /\ ret.outcome = "ok"
    /\ ret.affected >= 1
    /\ prompt_tags # {}

\* C21: create_tag with a name that a tag already has returns that tag, leaves
\* its id, name and color as they were and adds no tag: the registry is the
\* same after the call, whatever color the call carries.
C21_CreateExistingTagReturnsIt ==
    [][ret'.op = "create_tag" =>
         \A name \in TagNames, color \in TagColors :
            ((\E t \in DOMAIN tags : tags[t].name = name) /\ CreateTag(name, color, TRUE)) =>
               /\ ret'.outcome = "existing"
               /\ ret'.id \in DOMAIN tags
               /\ tags[ret'.id].name = name
               /\ tags' = tags
               /\ prompt_tags' = prompt_tags
               /\ Cardinality({t \in DOMAIN tags' : tags'[t].name = name}) = 1]_vars

\* create_tag returned an existing tag whose color is not the default, while
\* another tag could still be created
C21_Witness ==
    /\ ret.op = "create_tag"
    /\ ret.outcome = "existing"
    /\ ret.id \in DOMAIN tags
    /\ tags[ret.id].color # DefaultColor
    /\ nextTag <= MaxTags

\* C22: update_tag(t, {"name": N}) raises the ValueError of the name when a tag
\* other than t has the name N, and the tags and the prompt-tag linkage are
\* unchanged by the failing call.
C22_RenameToUsedNameRejected ==
    [][ret'.op = "update_tag" =>
         \A t \in DOMAIN tags, N \in TagNames :
            ((\E u \in DOMAIN tags \ {t} : tags[u].name = N) /\ UpdateTag(t, N, TRUE)) =>
               /\ ret'.outcome = "ValueError:name"
               /\ tags' = tags
               /\ prompt_tags' = prompt_tags]_vars

\* a rename was refused while a prompt was linked to a tag
C22_Witness ==
    /\ ret.op = "update_tag"
    /\ ret.outcome = "ValueError:name"
    /\ prompt_tags # {}

\* C23: whatever the interleaving of the use_prompt calls, the usage_count of
\* every prompt is the number of use_prompt calls on it that have returned the
\* prompt: it starts at 0 and no increment is lost.
C23_NoLostUpdate ==
    \A p \in DOMAIN prompt_fields :
       prompt_fields[p].usage_count =
          Cardinality({call \in UseCalls : /\ use_calls[call].at = "done"
                                           /\ use_calls[call].outcome = "ok"
                                           /\ use_calls[call].prompt_id = p})

\* a prompt was used, and two more calls on it are in flight: one holds the
\* write lock and one looked the prompt up before the last increment and has
\* its UPDATE still to run
C23_Witness ==
    \E p \in DOMAIN prompt_fields :
       /\ prompt_fields[p].usage_count >= 1
       /\ \E c1 \in UseCalls, c2 \in UseCalls :
            /\ use_calls[c1].at = "commit" /\ use_calls[c1].prompt_id = p
            /\ use_calls[c2].at = "update" /\ use_calls[c2].prompt_id = p
            /\ use_calls[c2].seen < prompt_fields[p].usage_count

\* C27: a prompt that create_prompt has just inserted has usage_count 0 and
\* current_version "1.0", and its version list is one entry labelled "1.0" with
\* the prompt's title, content and description.
C27_NewPromptSeeded ==
    [][\A p \in DOMAIN prompt_fields' \ DOMAIN prompt_fields :
          /\ prompt_fields'[p].usage_count = 0
          /\ prompt_fields'[p].current_version = "1.0"
          /\ p \in DOMAIN prompt_versions'
          /\ Len(prompt_versions'[p]) = 1
          /\ prompt_versions'[p][1] = [version |-> "1.0",
                                       title |-> prompt_fields'[p].title,
                                       content |-> prompt_fields'[p].content,
                                       description |-> prompt_fields'[p].description]]_vars

\* a second prompt has just been created, after the first one received another
\* version
C27_Witness ==
    /\ Cardinality(DOMAIN prompt_fields) = 2
    /\ \E p \in DOMAIN prompt_fields, q \in DOMAIN prompt_fields :
         /\ Len(prompt_versions[p]) = 1
         /\ prompt_fields[p].current_version = "1.0"
         /\ prompt_fields[p].title = prompt_versions[p][1].title
         /\ p > q
         /\ Len(prompt_versions[q]) = 2

\* C29: delete_prompt on an existing prompt removes the prompt, all of its
\* version entries and all of its tag linkages, and leaves every other prompt
\* with its versions and linkages, every tag and every category unchanged.
C29_DeletePromptCascades ==
    [][ret'.op = "delete_prompt" =>
         \A p \in DOMAIN prompts :
            DeletePrompt(p, TRUE) =>
               /\ ret'.outcome = "ok"
               /\ DOMAIN prompts' = DOMAIN prompts \ {p}
               /\ DOMAIN prompt_fields' = DOMAIN prompt_fields \ {p}
               /\ DOMAIN prompt_versions' = DOMAIN prompt_versions \ {p}
               /\ \A q \in DOMAIN prompts' :
                    /\ prompts'[q] = prompts[q]
                    /\ prompt_fields'[q] = prompt_fields[q]
                    /\ prompt_versions'[q] = prompt_versions[q]
               /\ prompt_tags' = {l \in prompt_tags : l[1] # p}
               /\ tags' = tags
               /\ categories' = categories]_vars

\* a prompt with a tag was deleted: a tag of the registry has no prompt left,
\* while another prompt with two versions and a tag of its own is still there
C29_Witness ==
    /\ ret.op = "delete_prompt"
    /\ ret.outcome = "ok"
    /\ \E t \in DOMAIN tags : \A l \in prompt_tags : l[2] # t
    /\ \E q \in DOMAIN prompts :
         /\ Len(prompt_versions[q]) = 2
         /\ \E l \in prompt_tags : l[1] = q

\* C28: update_prompt(p, update_data) changes title, content and description
\* only when update_data has them, the category id, name and path only when it
\* has "category_id", and the tags only when it has "tags"; it leaves the
\* version entries, current_version and usage_count of p, the other prompts and
\* the categories unchanged.
C28_UpdateChangesOnlySupplied ==
    [][ret'.op = "update_prompt" =>
         \A p \in DOMAIN prompts, u \in UpdateData :
            UpdatePromptData(p, u, TRUE) =>
               /\ prompt_versions' = prompt_versions
               /\ prompt_fields'[p].current_version = prompt_fields[p].current_version
               /\ prompt_fields'[p].usage_count = prompt_fields[p].usage_count
               /\ \A k \in {"title", "content", "description"} :
                    IF k \in DOMAIN u THEN prompt_fields'[p][k] = u[k]
                    ELSE prompt_fields'[p][k] = prompt_fields[p][k]
               /\ "category_id" \notin DOMAIN u => prompts'[p] = prompts[p]
               /\ "tags" \notin DOMAIN u => (tags' = tags /\ prompt_tags' = prompt_tags)
               /\ \A q \in DOMAIN prompts \ {p} :
                    /\ prompts'[q] = prompts[q]
                    /\ prompt_fields'[q] = prompt_fields[q]
                    /\ {l \in prompt_tags' : l[1] = q} = {l \in prompt_tags : l[1] = q}
               /\ categories' = categories]_vars

NotFound == {"None", "False", "not_found", "error:no_prompt"}

StateUnchanged ==
    /\ categories' = categories
    /\ prompts' = prompts
    /\ prompt_fields' = prompt_fields
    /\ prompt_versions' = prompt_versions
    /\ tags' = tags
    /\ prompt_tags' = prompt_tags

\* C30: update_category, delete_category and force_delete_category on an id
\* that is no category's, update_tag and delete_tag on an id that is no tag's,
\* and update_prompt, delete_prompt, use_prompt, create_prompt_version,
\* switch_prompt_version and delete_prompt_version on an id that is no prompt's
\* report not-found and leave every table unchanged.
C30_MissingIdChangesNothing ==
    [][/\ \A c \in MissingCatIds \ DOMAIN categories :
            /\ (\E new_parent_id \in {None, UncategorizedId} :
                   \/ RenameCategory(c, "b", TRUE)
                   \/ MoveCategory(c, FALSE, "", new_parent_id, TRUE)
                   \/ DeleteCategory(c, TRUE)
                   \/ ForceDeleteCategory(c, TRUE))
               => (ret'.outcome \in NotFound /\ StateUnchanged)
       /\ \A t \in MissingTagIds \ DOMAIN tags :
            (UpdateTag(t, <<"b">>, TRUE) \/ DeleteTag(t, TRUE))
               => (ret'.outcome \in NotFound /\ StateUnchanged)
       /\ \A p \in MissingPromptIds \ DOMAIN prompts :
            (\E update_data \in AllUpdateData, version \in Labels :
                \/ UpdatePromptData(p, update_data, TRUE)
                \/ DeletePrompt(p, TRUE)
                \/ UsePrompt(p, TRUE)
                \/ CreateVersion(p, [version |-> "1.1"] @@ Text(1), TRUE)
                \/ SwitchVersion(p, version, TRUE)
                \/ DeleteVersion(p, version, TRUE))
               => (ret'.outcome \in NotFound /\ StateUnchanged)]_vars

\* force_delete_category reported not-found while a category, a prompt with a
\* tag and two versions existed
C30_Witness ==
    /\ ret.op = "force_delete_category"
    /\ ret.outcome = "not_found"
    /\ Cardinality(DOMAIN categories) = 2
    /\ \E p \in DOMAIN prompts :
         /\ Len(prompt_versions[p]) = 2
         /\ \E l \in prompt_tags : l[1] = p

\* C25: search_prompts with category_id X returns exactly the prompts whose
\* category_id is X or a descendant of X, whatever category name is passed with
\* it, and search_prompts without any filter returns every prompt.
C25_SearchByCategory ==
    [][ret'.op = "search_prompts" =>
         /\ \A X \in SearchCatIds, category \in {"", "a", OtherName} :
               SearchPrompts(<< >>, category, X, TRUE) =>
                  ret'.rows = {p \in DOMAIN prompts :
                                  prompts[p].category_id \in {X} \cup Descendants(categories, X)}
         /\ SearchPrompts(<< >>, "", None, TRUE) => ret'.rows = DOMAIN prompts]_vars

\* a search by category id returned a prompt of a descendant category and left
\* another prompt out
C25_Witness ==
    /\ ret.op = "search_prompts"
    /\ ret.id # None
    /\ \E p \in ret.rows : prompts[p].category_id # ret.id
    /\ \E q \in DOMAIN prompts : q \notin ret.rows

\* x occurs in text as a substring, the case of the letters aside
Contains(text, x) ==
    \E i \in 1 .. Len(text) - Len(x) + 1 :
       \A j \in 1 .. Len(x) : Fold(text[i + j - 1]) = Fold(x[j])

\* C26: search_prompts with query x returns exactly the prompts whose title,
\* content or description contains x as a substring, case-insensitively.
C26_SearchByQuery ==
    [][ret'.op = "search_prompts" =>
         \A x \in Queries :
            SearchPrompts(x, "", None, TRUE) =>
               ret'.rows = {p \in DOMAIN prompts :
                               \/ Contains(prompt_fields[p].title, x)
                               \/ Contains(prompt_fields[p].content, x)
                               \/ Contains(prompt_fields[p].description, x)}]_vars

\* the calls of update_category on category id that SpecSync makes
UpdateCategoryCall(id) ==
    \/ \E name \in SyncNames : RenameCategory(id, name, TRUE)
    \/ \E name \in {"", "b"}, new_parent_id \in SyncCatIds \cup {None} :
          MoveCategory(id, name # "", name, new_parent_id, TRUE)
    \/ RecolorCategory(id, TRUE)

ListNames(T) == {Strip(T[i]) : i \in DOMAIN T} \ {<< >>}

\* C32: after create_prompt or update_prompt with the tag list T the prompt's
\* tags, as the prompt is read back, are exactly the distinct trimmed non-blank
\* names of T, and every such name that no tag had before is the name of a
\* new tag of the default color.
C32_TagsAreTheList ==
    [][\A p \in TagPromptIds, T \in TagLists :
          (\/ CreatePrompt(p, None, OtherName, PromptData, T)
           \/ p \in DOMAIN prompts /\ UpdatePromptTags(p, T))
          => /\ get_prompt_tags(tags', prompt_tags', p) = ListNames(T)
             /\ \A n \in ListNames(T) :
                  /\ TagRows(tags', n) # {}
                  /\ TagRows(tags, n) = {} =>
                        \A t \in TagRows(tags', n) : tags'[t].color = DefaultColor]_vars

\* the keys of update_data that the claims about update_prompt speak of
PartialKeys == {"title", "content", "description", "category_id", "tags"}

\* C33: update_prompt(p, partial) on an existing prompt p writes a new
\* updated_at, whatever non-empty subset of title, content, description,
\* category_id and tags partial supplies.
C33_UpdateBumpsUpdatedAt ==
    [][ret'.op = "update_prompt" =>
         \A p \in DOMAIN prompts, u \in UpdateData :
            (/\ DOMAIN u # {}
             /\ DOMAIN u \subseteq PartialKeys
             /\ UpdatePromptData(p, u, TRUE))
            => ret'.bumped]_vars

\* C34: get_category_descendants(id) ends and returns the categories that have
\* id among their ancestors under parent_id, id itself not among them, each of
\* them once, on every category tree that creates, re-parentings and force
\* deletes build.
C34_DescendantsExactlyOnce ==
    [][ret'.op = "get_category_descendants" =>
         \A id \in DescCatIds :
            GetDescendants(id, TRUE) =>
               /\ ret'.outcome = "ok"
               /\ {ret'.list[i] : i \in DOMAIN ret'.list} = Descendants(categories, id)
               /\ id \notin {ret'.list[i] : i \in DOMAIN ret'.list}
               /\ \A i \in DOMAIN ret'.list, j \in DOMAIN ret'.list :
                    ret'.list[i] = ret'.list[j] => i = j]_vars

\* the call returned a child of the category, a child of that child and, after
\* them, another child of the category
C34_Witness ==
    /\ ret.op = "get_category_descendants"
    /\ ret.outcome = "ok"
    /\ Len(ret.list) = 3
    /\ categories[ret.list[1]].parent_id = ret.id
    /\ categories[ret.list[2]].parent_id = ret.list[1]
    /\ categories[ret.list[3]].parent_id = ret.id

\* C35: whatever the interleaving of concurrent delete_prompt_version and
\* switch_prompt_version calls on a prompt, in every committed state the
\* prompt's current_version is the label of one of its version entries.
C35_CurrentVersionKept ==
    \A p \in DOMAIN prompt_fields :
       \E i \in DOMAIN VersionsOf(prompt_versions, p) :
          prompt_versions[p][i].version = prompt_fields[p].current_version

\* C36: whatever the interleaving of concurrent update_category calls that
\* re-parent, no committed state has a category among its own descendants.
C36_NoCycleCommitted ==
    \A c \in DOMAIN categories : c \notin Descendants(categories, c)

\* two calls moved two categories under each other, each passed its cycle test
\* before the other committed, one committed and the other ended in the
\* RecursionError of the path recomputation
C36_Witness ==
    \E c1 \in Calls, c2 \in Calls :
       /\ calls[c1].op = "update_category" /\ calls[c1].at = "done"
       /\ calls[c2].op = "update_category" /\ calls[c2].at = "done"
       /\ calls[c1].outcome = "ok"
       /\ calls[c2].outcome = "RecursionError"
       /\ calls[c1].category_id = calls[c2].new_parent_id
       /\ calls[c2].category_id = calls[c1].new_parent_id
       /\ categories[calls[c1].category_id].parent_id = calls[c1].new_parent_id

C38_PreviewAgreesWithForceDelete ==
    [][ret'.op = "force_delete_category" =>
         \A id \in DOMAIN categories :
            ForceDeleteCategory(id, TRUE) =>
               LET preview == delete_category(categories, prompts, id)
               IN  /\ preview.outcome = "requires_confirmation"
                   /\ ret'.outcome = "ok"
                   /\ preview.affected_prompts_count = ret'.affected
                   /\ preview.child_categories_count + 1 = ret'.deleted]_vars

\* the change a finished FileStorage call made is in the file
TookEffect(call) ==
    LET i == FilePromptIndex(file, calls[call].prompt_id)
    IN  /\ i # 0
        /\ calls[call].op = "use_prompt" => file[i].usage_count = 1
        /\ calls[call].op = "update_prompt" => file[i].title = calls[call].title

\* C39: when two concurrent FileStorage calls that change different prompts
\* (use_prompt, update_prompt) have both saved, the file holds the change of
\* each of them.
C39_DifferentEntitiesBothTakeEffect ==
    \A c1, c2 \in Calls :
       ( /\ c1 # c2
         /\ calls[c1].at = "done" /\ calls[c1].outcome = "ok"
         /\ calls[c2].at = "done" /\ calls[c2].outcome = "ok"
         /\ calls[c1].op \in {"use_prompt", "update_prompt"}
         /\ calls[c2].op \in {"use_prompt", "update_prompt"}
         /\ calls[c1].prompt_id # calls[c2].prompt_id )
       => TookEffect(c1) /\ TookEffect(c2)

====
